---- MODULE Spec2Model ----
(***************************************************************************)
(* A model of the tenant-context package: the Express tenant middleware    *)
(* (src/src/express/middleware.ts), the JWT claim extraction (src/src/     *)
(* jwt.ts), the header helpers (src/unnamed/part_007), the isolation       *)
(* guards (src/src/guards.ts), the tenant middleware factory with its      *)
(* cache (src/unnamed/part_002, src/src/extractors.ts, src/src/context.ts),*)
(* the sliding-window rate limiter (src/src/express/rate-limit.ts) and the *)
(* tenant resolver with its cache (src/unnamed/part_003).                  *)
(*                                                                         *)
(* JavaScript values are modelled as follows.  A value that may be         *)
(* undefined is a sequence of length at most one: <<>> is undefined and    *)
(* <<v>> is the value v.  Strings are TLA+ strings and the string          *)
(* functions of the code (startsWith, replace, split, parseInt, template   *)
(* interpolation) are computed character by character.  A JWT is the       *)
(* record of what the external verification library answers for it: does   *)
(* it verify, and which claims does it carry.  An HMAC-SHA256 tag is the   *)
(* pair of key and message it was computed from (a collision-free MAC).    *)
(***************************************************************************)
EXTENDS Integers, Sequences, FiniteSets, TLC

VARIABLES
    options,      \* the options tenantMiddleware(options) was built with
    req,          \* the request being handled (immutable inputs)
    pc,           \* "idle" | "received" | "done"
    resolution,   \* what resolveTenant did for req (see Resolved)
    reqTenant,    \* req.tenant   (None while unset)
    reqTenantId,  \* req.tenantId (None while unset)
    resHeaders,   \* the x-tenant-id / x-tenant-slug response headers set
    nextCalls,    \* how often next() was called for the request
    response,     \* the error response sent, None if none was sent
    \* The middleware factory (createTenantMiddleware) and what it shares:
    mwOptions,    \* the options createTenantMiddleware(options) was built with
    tenantCache,  \* the module's tenantCache: slug -> None | Some(CachedTenant)
    cacheStoredAt,\* history: when tenantCache.set last wrote the slug's entry
    currentTenant,\* TenantContext.currentTenant, the static slot
    platformDb,   \* the tenant table of the platform database, by slug
    clock,        \* Date.now()
    inflight,     \* the requests being handled, by request number
    \* The isolation guards (pure functions):
    guardCall,    \* the guard called last and its arguments
    guardResult,  \* what that call returned or threw
    \* The rate limiter (checkRateLimit) and the counter store it shares:
    rlConfig,     \* the limit and burst allowance the calls are made with
    rlStore,      \* Redis: key -> [count, expireAt], live keys only
    rlNow,        \* Date.now()
    rlCalls,      \* the checkRateLimit calls in flight, by call slot
    rlRun,        \* per key: the calls made in the window of the latest call
    rlLast,       \* the call that returned last, None before the first
    \* The tenant resolver (resolveTenantBySlug, resolveTenantByCustomDomain):
    rsCache,      \* the resolver's tenantCache: cache key -> None | Some(entry)
    rsTable,      \* prisma.tenant: slug -> None | Some(row)
    rsNow,        \* Date.now()
    rsCalls,      \* the lookups in flight or just returned, by call slot
    rsChangedAt,  \* history: when a row of prisma.tenant last changed
    rsOutdated    \* history: what was read before an invalidation of its key

exprVars == <<options, req, pc, resolution, reqTenant, reqTenantId, resHeaders,
              nextCalls, response>>

mwVars == <<mwOptions, tenantCache, cacheStoredAt, currentTenant, platformDb,
           clock, inflight>>

guardVars == <<guardCall, guardResult>>

rlVars == <<rlConfig, rlStore, rlNow, rlCalls, rlRun, rlLast>>

rsVars == <<rsCache, rsTable, rsNow, rsCalls, rsChangedAt, rsOutdated>>

vars == <<exprVars, mwVars, guardVars, rlVars, rsVars>>

\* What an action of one component leaves alone.
besidesExpr == <<mwVars, guardVars, rlVars, rsVars>>

besidesMw == <<exprVars, guardVars, rlVars, rsVars>>

besidesGuards == <<exprVars, mwVars, rlVars, rsVars>>

besidesRl == <<exprVars, mwVars, guardVars, rsVars>>

besidesRs == <<exprVars, mwVars, guardVars, rlVars>>

-----------------------------------------------------------------------------
(* JavaScript values *)

None == <<>>

Some(v) == <<v>>

\* JavaScript truthiness of a possibly-undefined string.
Truthy(o) == o # None /\ o[1] # ""

\* `${o}`: template interpolation of a possibly-undefined string.
Interpolate(o) == IF o = None THEN "undefined" ELSE o[1]

\* a || b on possibly-undefined strings.
OrElse(a, b) == IF Truthy(a) THEN a ELSE b

Digits == <<"0", "1", "2", "3", "4", "5", "6", "7", "8", "9">>

IsDigit(c) == \E i \in 1..10 : Digits[i] = c

DigitValue(c) == (CHOOSE i \in 1..10 : Digits[i] = c) - 1

\* s.startsWith(p)
StartsWith(s, p) == Len(s) >= Len(p) /\ SubSeq(s, 1, Len(p)) = p

\* s.endsWith(p)
EndsWith(s, p) == Len(s) >= Len(p) /\ SubSeq(s, Len(s) - Len(p) + 1, Len(s)) = p

\* s.indexOf(p), 1-based; 0 when p does not occur in s.
IndexOf(s, p) ==
    LET hits == {i \in 1..(Len(s) - Len(p) + 1) : SubSeq(s, i, i + Len(p) - 1) = p}
    IN  IF hits = {} THEN 0 ELSE CHOOSE i \in hits : \A j \in hits : i <= j

\* s.replace(p, r) with a string pattern: the first occurrence only.
Replace(s, p, r) ==
    LET i == IndexOf(s, p)
    IN  IF i = 0 THEN s
        ELSE SubSeq(s, 1, i - 1) \o r \o SubSeq(s, i + Len(p), Len(s))

\* s.split(sep): the sequence of the pieces of s between separators.
RECURSIVE Split(_, _)
Split(s, sep) ==
    LET i == IndexOf(s, sep)
    IN  IF i = 0 THEN <<s>>
        ELSE <<SubSeq(s, 1, i - 1)>> \o Split(SubSeq(s, i + Len(sep), Len(s)), sep)

\* s.trim() for the blanks the model uses.
RECURSIVE Trim(_)
Trim(s) ==
    IF Len(s) > 0 /\ SubSeq(s, 1, 1) = " " THEN Trim(SubSeq(s, 2, Len(s)))
    ELSE IF Len(s) > 0 /\ SubSeq(s, Len(s), Len(s)) = " "
         THEN Trim(SubSeq(s, 1, Len(s) - 1))
         ELSE s

\* The length of the longest prefix of s made of decimal digits.
RECURSIVE DigitPrefixLen(_)
DigitPrefixLen(s) ==
    IF Len(s) > 0 /\ IsDigit(SubSeq(s, 1, 1))
    THEN 1 + DigitPrefixLen(SubSeq(s, 2, Len(s)))
    ELSE 0

RECURSIVE DecimalValue(_)
DecimalValue(s) ==
    IF Len(s) = 0 THEN 0
    ELSE 10 * DecimalValue(SubSeq(s, 1, Len(s) - 1))
         + DigitValue(SubSeq(s, Len(s), Len(s)))

\* parseInt(s, 10): the value of the leading decimal digits of s (after
\* leading blanks), whatever follows them; NaN (None) when there is none.
ParseInt(str) ==
    LET s == Trim(str)
        n == DigitPrefixLen(s)
    IN  IF n = 0 THEN None ELSE Some(DecimalValue(SubSeq(s, 1, n)))

-----------------------------------------------------------------------------
(* src/src/errors.ts: the error classes, as [name, code, statusCode] *)

TenantMissingError ==
    [name |-> "TenantMissingError", code |-> "TENANT_MISSING", statusCode |-> 400]

TenantSuspendedError ==
    [name |-> "TenantSuspendedError", code |-> "TENANT_SUSPENDED", statusCode |-> 403]

TenantArchivedError ==
    [name |-> "TenantArchivedError", code |-> "TENANT_ARCHIVED", statusCode |-> 410]

TenantMaintenanceError ==
    [name |-> "TenantMaintenanceError", code |-> "TENANT_MAINTENANCE", statusCode |-> 503]

TenantClaimsMissingError ==
    [name |-> "TenantClaimsMissingError", code |-> "TENANT_CLAIMS_MISSING",
     statusCode |-> 401]

\* An error that is no TenantError: jose's verification failure, or the
\* "JWT verification not initialized" Error of verifyJwt.
GenericError == [name |-> "Error", code |-> "", statusCode |-> 0]

NoError == [name |-> "", code |-> "", statusCode |-> 0]

\* error instanceof TenantError
IsTenantError(e) ==
    e \in {TenantMissingError, TenantSuspendedError, TenantArchivedError,
           TenantMaintenanceError, TenantClaimsMissingError}

-----------------------------------------------------------------------------
(* src/unnamed/part_007: header names and getHeader *)

\* The request headers the package reads; all names are lower case, as Node
\* delivers them, so headers[name] and headers[name.toLowerCase()] agree.
getHeader(headers, name) == headers[name]

-----------------------------------------------------------------------------
(* src/src/express/middleware.ts: internal network detection *)

DEFAULT_TRUSTED_NETWORKS ==
    <<"10.0.0.0/8", "172.16.0.0/12", "192.168.0.0/16", "127.0.0.0/8",
      "fc00::/7", "::1/128">>

getClientIp(r) ==
    LET forwarded == r.headers["x-forwarded-for"]
    IN  IF Truthy(forwarded)
        THEN Trim(Split(forwarded[1], ",")[1])
        ELSE r.ip

\* The check reads its second parameter nowhere.
isInternalNetwork(ip, trustedNetworks) ==
    LET cleanIp == Replace(ip, "::ffff:", "")
        pieces == Split(cleanIp, ".")
        second == IF Len(pieces) >= 2 THEN ParseInt(pieces[2]) ELSE None
    IN  \/ StartsWith(cleanIp, "10.")
        \/ StartsWith(cleanIp, "192.168.")
        \/ StartsWith(cleanIp, "127.")
        \/ cleanIp = "localhost"
        \/ cleanIp = "::1"
        \/ /\ StartsWith(cleanIp, "172.")
           /\ second # None
           /\ second[1] >= 16
           /\ second[1] <= 31

-----------------------------------------------------------------------------
(* src/src/express/middleware.ts: header signature verification *)

SIGNATURE_MAX_AGE_MS == 5 * 60 * 1000

\* createHmac('sha256', key).update(message).digest('hex'): a tag that
\* determines its key and its message (no collisions).
Hmac(key, message) == "hmac[" \o key \o "](" \o message \o ")"

\* The message the signature is computed over.
SignedMessage(tenantId, tenantSlug, timestamp) ==
    Interpolate(tenantId) \o ":" \o Interpolate(tenantSlug) \o ":" \o timestamp

verifyHeaderSignature(r, secret) ==
    LET signature == r.headers["x-tenant-signature"]
        timestamp == r.headers["x-tenant-signature-ts"]
        ts        == ParseInt(timestamp[1])
        tenantId  == getHeader(r.headers, "x-tenant-id")
        tenantSlug == getHeader(r.headers, "x-tenant-slug")
        message   == SignedMessage(tenantId, tenantSlug, timestamp[1])
        expectedSignature == Hmac(secret, message)
    IN  IF ~Truthy(signature) \/ ~Truthy(timestamp) THEN FALSE
        ELSE IF ts = None \/ r.now - ts[1] > SIGNATURE_MAX_AGE_MS THEN FALSE
        ELSE signature[1] = expectedSignature

-----------------------------------------------------------------------------
(* src/src/jwt.ts: verification and claim extraction *)

\* What a function that may throw did: a value, or a thrown error.
Returned(v) == [ok |-> TRUE, value |-> v, error |-> NoError]

Thrown(e) == [ok |-> FALSE, value |-> None, error |-> e]

\* verifyJwt: the payload of a token that jose.jwtVerify accepts under the
\* initialised key; an Error when jose rejects the token (or when no key was
\* initialised, in which case no token verifies).
verifyJwt(token) ==
    IF token.verifies THEN Returned(token.claims)
    ELSE Thrown(GenericError)

extractTenantPayload(token, config) ==
    LET verified == verifyJwt(token)
        payload == verified.value
        requireSiteId == config.requireSiteId # FALSE
    IN  IF ~verified.ok THEN verified
        ELSE IF ~Truthy(payload.sub) THEN Thrown(TenantClaimsMissingError)
        ELSE IF requireSiteId /\ ~Truthy(payload.siteId)
             THEN Thrown(TenantClaimsMissingError)
        ELSE Returned(payload)

\* A TenantContext: id, slug, status and resolvedFrom.domain (the type is
\* always 'hosted' and features is always {} where the package builds one).
Tenant(id, slug, status, domain) ==
    [id |-> id, slug |-> slug, status |-> status, domain |-> domain]

resolveTenantFromJwt(payload) ==
    IF ~Truthy(payload.siteId) THEN Thrown(TenantMissingError)
    ELSE Returned(Tenant(payload.siteId[1],
                         OrElse(payload.siteSlug, payload.siteId)[1],
                         OrElse(payload.siteStatus, Some("ACTIVE"))[1],
                         "jwt"))

-----------------------------------------------------------------------------
(* src/src/express/middleware.ts: resolution *)

extractToken(r) ==
    IF r.cookieToken # None THEN r.cookieToken
    ELSE IF r.bearerToken # None THEN r.bearerToken
    ELSE None

buildTenantFromHeaders(r) ==
    LET tenantId == getHeader(r.headers, "x-tenant-id")
        tenantSlug == getHeader(r.headers, "x-tenant-slug")
        tenantStatus == getHeader(r.headers, "x-tenant-status")
        tenantHost == getHeader(r.headers, "x-tenant-host")
    IN  IF ~Truthy(tenantId) THEN Thrown(TenantMissingError)
        ELSE Returned(Tenant(tenantId[1],
                             OrElse(tenantSlug, tenantId)[1],
                             OrElse(tenantStatus, Some("ACTIVE"))[1],
                             OrElse(tenantHost, Some("header"))[1]))

\* What resolveTenant did: the tenant it returned (kind "tenant", with the
\* step that produced it), undefined (kind "none"), or the error it threw
\* (kind "throw"); and whether it called console.warn.
Resolved(result, via, warn) ==
    IF result.ok
    THEN [kind |-> "tenant", tenant |-> Some(result.value), via |-> via,
          error |-> NoError, warned |-> warn]
    ELSE [kind |-> "throw", tenant |-> None, via |-> via,
          error |-> result.error, warned |-> warn]

Unresolved(warn) ==
    [kind |-> "none", tenant |-> None, via |-> "none", error |-> NoError,
     warned |-> warn]

\* Step 2 of resolveTenant as it would be if the final branch built the tenant
\* from the headers instead of ignoring them.
resolveFromHeadersUnguarded(r, opts, trustedNetworks) ==
    LET headerTenantId == getHeader(r.headers, "x-tenant-id")
        mode == opts.headerTrustMode
    IN  IF ~Truthy(headerTenantId) THEN Unresolved(FALSE)
        ELSE IF mode = "signed"
             THEN IF /\ Truthy(opts.headerSignatureSecret)
                     /\ verifyHeaderSignature(r, opts.headerSignatureSecret[1])
                  THEN Resolved(buildTenantFromHeaders(r), "header", FALSE)
                  ELSE Unresolved(TRUE)
        ELSE IF mode = "internal-network"
             THEN IF isInternalNetwork(getClientIp(r), trustedNetworks)
                  THEN Resolved(buildTenantFromHeaders(r), "header", FALSE)
                  ELSE Unresolved(TRUE)
        ELSE Resolved(buildTenantFromHeaders(r), "header", TRUE)

\* Step 2 of resolveTenant: the tenant headers, by trust mode.
resolveFromHeaders(r, opts, trustedNetworks) ==
    LET headerTenantId == getHeader(r.headers, "x-tenant-id")
        mode == opts.headerTrustMode
    IN  IF ~Truthy(headerTenantId) THEN Unresolved(FALSE)
        ELSE IF mode = "signed"
             THEN IF /\ Truthy(opts.headerSignatureSecret)
                     /\ verifyHeaderSignature(r, opts.headerSignatureSecret[1])
                  THEN Resolved(buildTenantFromHeaders(r), "header", FALSE)
                  ELSE Unresolved(TRUE)
        ELSE IF mode = "internal-network"
             THEN IF isInternalNetwork(getClientIp(r), trustedNetworks)
                  THEN Resolved(buildTenantFromHeaders(r), "header", FALSE)
                  ELSE Unresolved(TRUE)
        ELSE Unresolved(TRUE)      \* 'disabled' and 'jwt-only'

resolveTenant(r, opts, trustedNetworks) ==
    LET token == extractToken(r)
        payload == extractTenantPayload(token[1], opts.jwt[1])
    IN  IF token # None /\ opts.jwt # None
        THEN IF ~payload.ok THEN Resolved(payload, "jwt", FALSE)
             ELSE IF Truthy(payload.value.siteId)
                  THEN Resolved(resolveTenantFromJwt(payload.value), "jwt", FALSE)
                  ELSE resolveFromHeaders(r, opts, trustedNetworks)
        ELSE resolveFromHeaders(r, opts, trustedNetworks)

-----------------------------------------------------------------------------
(* src/src/express/middleware.ts: validation *)

shouldSkipPath(path, skipPaths) ==
    \E i \in 1..Len(skipPaths) :
        LET skip == skipPaths[i]
        IN  IF EndsWith(skip, "*")
            THEN StartsWith(path, SubSeq(skip, 1, Len(skip) - 1))
            ELSE path = skip

\* validateTenantStatus as it would be if the ARCHIVED check sat behind the
\* allowSuspended flag.
validateTenantStatusArchivedAllowed(tenant, allowSuspended, allowMaintenance) ==
    IF tenant.status \in {"SUSPENDED", "ARCHIVED"} /\ allowSuspended THEN NoError
    ELSE IF tenant.status = "SUSPENDED" THEN TenantSuspendedError
    ELSE IF tenant.status = "ARCHIVED" THEN TenantArchivedError
    ELSE IF tenant.status = "MAINTENANCE" /\ ~allowMaintenance
         THEN TenantMaintenanceError
    ELSE NoError

\* The error validateTenantStatus throws, NoError when it returns.
validateTenantStatus(tenant, allowSuspended, allowMaintenance) ==
    IF tenant.status = "SUSPENDED" /\ ~allowSuspended THEN TenantSuspendedError
    ELSE IF tenant.status = "ARCHIVED" THEN TenantArchivedError
    ELSE IF tenant.status = "MAINTENANCE" /\ ~allowMaintenance
         THEN TenantMaintenanceError
    ELSE NoError

-----------------------------------------------------------------------------
(* The configurations and requests the model draws from *)

Statuses == {"ACTIVE", "TRIAL", "SUSPENDED", "MAINTENANCE", "ARCHIVED"}

\* The HMAC secret of the gateway, and a key that is not the secret.
GatewaySecret == "s3cret"

OtherKey == "guess"

\* Date.now() while the request is handled: an instant, in ms.
Now == 1000 * 1000

\* An option left out of the options object is None.  A secret is configured
\* under 'signed', and trusted networks under 'internal-network', where they
\* are read.
Options(rq, asus, amnt, mode, nets, jwt) ==
    [required |-> rq, skipPaths |-> Some(<<"/health", "/public/*">>),
     allowSuspended |-> asus, allowMaintenance |-> amnt,
     headerTrustMode |-> mode,
     headerSignatureSecret |-> IF mode = Some("signed") THEN Some(GatewaySecret)
                               ELSE None,
     trustedNetworks |-> nets, jwt |-> jwt]

OptionSet ==
    { o \in { Options(rq, asus, amnt, mode, nets, jwt) :
                rq \in {None, Some(TRUE), Some(FALSE)},
                asus \in {None, Some(TRUE)},
                amnt \in {None, Some(TRUE)},
                mode \in {None, Some("disabled"), Some("signed"),
                          Some("internal-network")},
                nets \in {None, Some(<<"10.0.0.0/8">>)},
                jwt \in {None, Some([requireSiteId |-> TRUE]),
                         Some([requireSiteId |-> FALSE])} } :
        o.trustedNetworks # None => o.headerTrustMode = Some("internal-network") }

\* A default of the destructuring in tenantMiddleware.
Default(o, d) == IF o = None THEN d ELSE o[1]

Claims(sub, siteId, siteSlug, siteStatus) ==
    [sub |-> sub, siteId |-> siteId, siteSlug |-> siteSlug, siteStatus |-> siteStatus]

\* A token jose rejects (bad signature, expired).
BadToken == [verifies |-> FALSE, claims |-> Claims(None, None, None, None)]

GoodToken(sub, siteId, siteSlug, siteStatus) ==
    [verifies |-> TRUE, claims |-> Claims(sub, siteId, siteSlug, siteStatus)]

NoHeaders ==
    [h \in {"x-tenant-id", "x-tenant-slug", "x-tenant-status", "x-tenant-host",
            "x-tenant-signature", "x-tenant-signature-ts", "x-forwarded-for"}
        |-> None]

Headers(id, slug, status, host, sig, ts, xff) ==
    [NoHeaders EXCEPT !["x-tenant-id"] = id, !["x-tenant-slug"] = slug,
                      !["x-tenant-status"] = status, !["x-tenant-host"] = host,
                      !["x-tenant-signature"] = sig,
                      !["x-tenant-signature-ts"] = ts,
                      !["x-forwarded-for"] = xff]

Request(path, cookieToken, bearerToken, headers, ip) ==
    [path |-> path, cookieToken |-> cookieToken, bearerToken |-> bearerToken,
     headers |-> headers, ip |-> ip, now |-> Now]

ExternalIp == "203.0.113.5"

InternalIp == "10.0.0.1"

\* The signature the gateway computes for a tuple.
GatewaySignature(id, slug, ts) == Hmac(GatewaySecret, SignedMessage(id, slug, ts))

\* Tokens against headers: every kind of token, in the cookie, in the
\* Authorization header or in both, with and without an x-tenant-id header,
\* from an internal and from an external address, signed and not.
TokenRequests ==
    LET tokens == {BadToken} \cup
                  { GoodToken(sub, site, None, None) :
                        sub \in {None, Some("user-1")},
                        site \in {None, Some("a")} }
        carried == {<<None, None>>,
                    <<Some(GoodToken(Some("user-1"), Some("a"), None, None)),
                      Some(BadToken)>>}
                   \cup {<<Some(t), None>> : t \in tokens}
                   \cup {<<None, Some(t)>> : t \in tokens}
    IN  { Request("/api/products", c[1], c[2],
                  Headers(id, None, None, None,
                          IF signed THEN Some(GatewaySignature(id, None, "1000000"))
                          ELSE None,
                          IF signed THEN Some("1000000") ELSE None, None),
                  ip) :
            c \in carried, id \in {None, Some(""), Some("b")},
            ip \in {ExternalIp, InternalIp}, signed \in BOOLEAN }

\* Every status, from a token and from trusted headers.
StatusRequests ==
    { Request("/api/products", None,
              Some(GoodToken(Some("user-1"), Some("a"), slug, status)),
              NoHeaders, ExternalIp) :
        slug \in {None, Some("acme")},
        status \in {None} \cup {Some(st) : st \in Statuses} }
    \cup
    { Request("/api/products", None, None,
              Headers(Some("b"), slug, status, host,
                      Some(GatewaySignature(Some("b"), slug, "1000000")),
                      Some("1000000"), None),
              InternalIp) :
        slug \in {None, Some("bee")},
        host \in {None, Some("bee.shop.example")},
        status \in {None, Some("archived")} \cup {Some(st) : st \in Statuses} }

\* Paths that are and are not skipped.
PathRequests ==
    { Request(path, None, None,
              Headers(id, None, None, None, None, None, None), InternalIp) :
        path \in {"/health", "/healthz", "/public/logo.png", "/public"},
        id \in {None, Some("b")} }

\* Signed headers: the signature the gateway made for some tuple, presented
\* with the headers of some tuple at some time.
SignatureRequests ==
    LET ids == {Some("a"), Some("a:b")}
        slugs == {None, Some("c"), Some("b:c"), Some("undefined")}
        stamps == {None, Some(""), Some("abc"), Some("699999"), Some("700000"),
                   Some("1000000"), Some("1300000"), Some("1000000x")}
        sigs(id, slug, ts) ==
            {None, Some(""), Some("00ff"),
             Some(Hmac(OtherKey, SignedMessage(id, slug, Interpolate(ts)))),
             Some(GatewaySignature(id, slug, "1000000"))}
            \cup { Some(GatewaySignature(sid, sslug, Interpolate(ts))) :
                       sid \in ids, sslug \in slugs }
    IN  UNION { { Request("/api/products", None, None,
                          Headers(t[1], t[2], None, None, sig, t[3], None),
                          ExternalIp) : sig \in sigs(t[1], t[2], t[3]) } :
                  t \in ids \X slugs \X stamps }

\* Caller addresses and forwarded-for chains.
NetworkRequests ==
    { Request("/api/products", None, None,
              Headers(Some("b"), None, None, None, None, None, xff), ip) :
        ip \in {ExternalIp, InternalIp, "192.168.1.1", "127.0.0.1", "172.16.0.1",
                "172.31.9.9", "172.32.0.1", "172.15.0.1", "::1", "fd00::1",
                "::ffff:10.0.0.1", "2001:db8::1"},
        xff \in {None, Some(""), Some("10.0.0.1"), Some("203.0.113.5, 10.0.0.1"),
                 Some(" 10.0.0.1 ,203.0.113.5"), Some("localhost")} }

\* The requests a middleware built with opts is given: the headers only one
\* trust mode reads are varied under that mode.
RequestSet(opts) ==
    TokenRequests \cup StatusRequests \cup PathRequests
    \cup (IF opts.headerTrustMode = Some("signed") THEN SignatureRequests ELSE {})
    \cup (IF opts.headerTrustMode = Some("internal-network")
          THEN NetworkRequests ELSE {})

-----------------------------------------------------------------------------
(* src/src/express/middleware.ts: tenantMiddleware *)

NoRequest == Request("", None, None, NoHeaders, "")

NoResolution == Unresolved(FALSE)

\* res.status(statusCode).json({error: {code, ...}})
Response(statusCode, code) == Some([statusCode |-> statusCode, code |-> code])

\* tenantMiddleware(options) throws for 'signed' without a secret.
ConstructorThrows(opts) ==
    opts.headerTrustMode = Some("signed") /\ ~Truthy(opts.headerSignatureSecret)

ExprInit ==
    /\ req = NoRequest
    /\ pc = "idle"
    /\ resolution = NoResolution
    /\ reqTenant = None
    /\ reqTenantId = None
    /\ resHeaders = None
    /\ nextCalls = 0
    /\ response = None

\* A request arrives, with a fresh req and res.
Receive ==
    /\ pc = "idle"
    /\ \E r \in RequestSet(options) : req' = r
    /\ pc' = "received"
    /\ UNCHANGED <<options, resolution, reqTenant, reqTenantId, resHeaders,
                   nextCalls, response>>
    /\ UNCHANGED besidesExpr

\* The request is over: its req and res are dropped.
Release ==
    /\ pc = "done"
    /\ pc' = "idle"
    /\ req' = NoRequest
    /\ resolution' = NoResolution
    /\ reqTenant' = None
    /\ reqTenantId' = None
    /\ resHeaders' = None
    /\ nextCalls' = 0
    /\ response' = None
    /\ UNCHANGED options
    /\ UNCHANGED besidesExpr

\* The catch block of the handler (no onError handler is configured).
Caught(error) ==
    IF IsTenantError(error) THEN Response(error.statusCode, error.code)
    ELSE Response(500, "TENANT_RESOLUTION_ERROR")

\* required as it would be with the default the other way round.
RequiredDefaultFalse(opts) == Default(opts.required, FALSE)

\* required = true: whether a request without a tenant is an error.
Required(opts) == Default(opts.required, TRUE)

\* The handler as it would be if the tenant were attached to the request
\* before its status is validated.
HandleAttachingFirst ==
    LET required == Required(options)
        skipPaths == Default(options.skipPaths, <<>>)
        allowSuspended == Default(options.allowSuspended, FALSE)
        allowMaintenance == Default(options.allowMaintenance, FALSE)
        trustedNetworks == Default(options.trustedNetworks, DEFAULT_TRUSTED_NETWORKS)
        opts == [options EXCEPT
                    !.headerTrustMode = Some(Default(options.headerTrustMode, "jwt-only"))]
        found == resolveTenant(req, [opts EXCEPT !.headerTrustMode = @[1]],
                               trustedNetworks)
        invalid == validateTenantStatus(found.tenant[1], allowSuspended,
                                        allowMaintenance)
    IN  /\ pc = "received"
        /\ pc' = "done"
        /\ UNCHANGED <<options, req>>
        /\ UNCHANGED besidesExpr
        /\ IF shouldSkipPath(req.path, skipPaths)
           THEN /\ nextCalls' = nextCalls + 1
                /\ UNCHANGED <<resolution, reqTenant, reqTenantId, resHeaders,
                               response>>
           ELSE /\ resolution' = found
                /\ IF found.kind = "throw"
                   THEN /\ response' = Caught(found.error)
                        /\ UNCHANGED <<reqTenant, reqTenantId, resHeaders,
                                       nextCalls>>
                   ELSE IF found.kind = "none"
                   THEN IF required
                        THEN /\ response' = Caught(TenantMissingError)
                             /\ UNCHANGED <<reqTenant, reqTenantId, resHeaders,
                                            nextCalls>>
                        ELSE /\ nextCalls' = nextCalls + 1
                             /\ UNCHANGED <<reqTenant, reqTenantId, resHeaders,
                                            response>>
                   ELSE IF invalid # NoError
                   THEN /\ response' = Caught(invalid)
                        /\ reqTenant' = found.tenant
                        /\ reqTenantId' = Some(found.tenant[1].id)
                        /\ UNCHANGED <<resHeaders, nextCalls>>
                   ELSE /\ reqTenant' = found.tenant
                        /\ reqTenantId' = Some(found.tenant[1].id)
                        /\ resHeaders' = Some([id |-> found.tenant[1].id,
                                               slug |-> found.tenant[1].slug])
                        /\ nextCalls' = nextCalls + 1
                        /\ UNCHANGED response

\* The handler returned by tenantMiddleware(options), from its first line to
\* its return.
Handle ==
    LET required == Required(options)
        skipPaths == Default(options.skipPaths, <<>>)
        allowSuspended == Default(options.allowSuspended, FALSE)
        allowMaintenance == Default(options.allowMaintenance, FALSE)
        trustedNetworks == Default(options.trustedNetworks, DEFAULT_TRUSTED_NETWORKS)
        opts == [options EXCEPT
                    !.headerTrustMode = Some(Default(options.headerTrustMode, "jwt-only"))]
        found == resolveTenant(req, [opts EXCEPT !.headerTrustMode = @[1]],
                               trustedNetworks)
        invalid == validateTenantStatus(found.tenant[1], allowSuspended,
                                        allowMaintenance)
    IN  /\ pc = "received"
        /\ pc' = "done"
        /\ UNCHANGED <<options, req>>
        /\ UNCHANGED besidesExpr
        /\ IF shouldSkipPath(req.path, skipPaths)
           THEN /\ nextCalls' = nextCalls + 1
                /\ UNCHANGED <<resolution, reqTenant, reqTenantId, resHeaders,
                               response>>
           ELSE /\ resolution' = found
                /\ IF found.kind = "throw"
                   THEN /\ response' = Caught(found.error)
                        /\ UNCHANGED <<reqTenant, reqTenantId, resHeaders,
                                       nextCalls>>
                   ELSE IF found.kind = "none"
                   THEN IF required
                        THEN /\ response' = Caught(TenantMissingError)
                             /\ UNCHANGED <<reqTenant, reqTenantId, resHeaders,
                                            nextCalls>>
                        ELSE /\ nextCalls' = nextCalls + 1
                             /\ UNCHANGED <<reqTenant, reqTenantId, resHeaders,
                                            response>>
                   ELSE IF invalid # NoError
                   THEN /\ response' = Caught(invalid)
                        /\ UNCHANGED <<reqTenant, reqTenantId, resHeaders,
                                       nextCalls>>
                   ELSE /\ reqTenant' = found.tenant
                        /\ reqTenantId' = Some(found.tenant[1].id)
                        /\ resHeaders' = Some([id |-> found.tenant[1].id,
                                               slug |-> found.tenant[1].slug])
                        /\ nextCalls' = nextCalls + 1
                        /\ UNCHANGED response

-----------------------------------------------------------------------------
(* src/src/extractors.ts: the extractors of the middleware factory *)

\* extractTenantFromJwt: jwt.verify throws for a token that does not verify
\* under the secret, and the catch returns null.
extractTenantFromJwt(token) ==
    IF ~token.verifies THEN None
    ELSE IF Truthy(token.payload.tenantSlug) /\ Truthy(token.payload.tenantId)
         THEN Some(token.payload)
         ELSE None

\* extractTenantFromHeader: Node joins repeated x-tenant-slug headers into
\* one string, so the value is a string or undefined.
extractTenantFromHeader(headers) == headers["x-tenant-slug"]

\* extractBearerToken, on a request whose Authorization header is absent or
\* is 'Bearer ' followed by the token.
extractBearerToken(r) == r.bearerToken

-----------------------------------------------------------------------------
(* src/src/context.ts: the static tenant slot *)

PlanOrder == <<"STARTER", "GROWTH", "BUSINESS", "ENTERPRISE">>

\* planOrder.indexOf(plan), 0-based; -1 when absent.
PlanIndex(plan) ==
    IF \E i \in 1..Len(PlanOrder) : PlanOrder[i] = plan
    THEN (CHOOSE i \in 1..Len(PlanOrder) : PlanOrder[i] = plan) - 1
    ELSE -1

\* TenantContext.hasPlanAtLeast(minPlan) with tenant in the slot.
hasPlanAtLeast(slot, minPlan) ==
    IF slot = None THEN FALSE
    ELSE PlanIndex(slot[1].plan) >= PlanIndex(minPlan)

\* TenantContext.hasAddon(addon) with tenant in the slot.
hasAddon(slot, addon) == IF slot = None THEN FALSE ELSE addon \in slot[1].addons

-----------------------------------------------------------------------------
(* src/unnamed/part_002: the tenant middleware factory *)

Limits(products, orders, staff, warehouses, rate) ==
    [maxProducts |-> products, maxOrders |-> orders, maxStaff |-> staff,
     maxWarehouses |-> warehouses, apiRateLimit |-> rate]

PLAN_LIMITS ==
    [STARTER |-> Limits(100, 500, 2, 1, 100),
     GROWTH |-> Limits(1000, 5000, 10, 3, 500),
     BUSINESS |-> Limits(10000, 50000, 50, 10, 2000),
     ENTERPRISE |-> Limits(-1, -1, -1, -1, 10000)]

LowerCase == "abcdefghijklmnopqrstuvwxyz"

UpperCase == "ABCDEFGHIJKLMNOPQRSTUVWXYZ"

\* s.toUpperCase()
RECURSIVE ToUpperCase(_)
ToUpperCase(s) ==
    IF Len(s) = 0 THEN s
    ELSE LET c == SubSeq(s, 1, 1)
             i == IndexOf(LowerCase, c)
         IN  (IF i = 0 THEN c ELSE SubSeq(UpperCase, i, i))
             \o ToUpperCase(SubSeq(s, 2, Len(s)))

DEFAULT_CACHE_TTL_MS == 60000

\* Steps 6 of the handler: the TenantInfo built from a row of the database.
BuildTenantInfo(row) ==
    LET planSlug == IF row.planSlug = None THEN "STARTER"
                    ELSE ToUpperCase(row.planSlug[1])
        limits == IF planSlug \in DOMAIN PLAN_LIMITS THEN PLAN_LIMITS[planSlug]
                  ELSE PLAN_LIMITS.STARTER
    IN  [tenantId |-> row.id, tenantSlug |-> row.slug, name |-> row.name,
         databaseName |-> row.databaseName, status |-> row.status,
         plan |-> planSlug, limits |-> limits, addons |-> row.addons]

\* A request the factory's middleware handles, and the locals of its handler.
MwRequest(bearerToken, slugHeader) ==
    [bearerToken |-> bearerToken,
     headers |-> [h \in {"x-tenant-slug"} |-> slugHeader]]

IdleSlot ==
    [pc |-> "idle", request |-> MwRequest(None, None),
     tenantSlug |-> None, user |-> None, now |-> 0,
     tenantInfo |-> None, reqUser |-> None, tenantPrisma |-> None,
     nextCalls |-> 0, response |-> None]

\* Steps 1 and 2: the slug and the user the handler works with.
ChosenSlug(r) ==
    LET token == extractBearerToken(r)
        payload == IF token # None THEN extractTenantFromJwt(token[1]) ELSE None
        fromToken == IF payload # None THEN payload[1].tenantSlug ELSE None
    IN  IF Truthy(fromToken) THEN fromToken
        ELSE extractTenantFromHeader(r.headers)

ChosenUser(r) ==
    LET token == extractBearerToken(r)
        payload == IF token # None THEN extractTenantFromJwt(token[1]) ELSE None
    IN  IF payload # None
        THEN Some([id |-> payload[1].sub, email |-> payload[1].email])
        ELSE None

\* Every slot but slot i is left alone.
Slot(i, new) == inflight' = [inflight EXCEPT ![i] = new]

\* The handler up to its first await: steps 1 to 4.
MwStart(i) ==
    LET me == inflight[i]
        optional == Default(mwOptions.optional, FALSE)
        cacheTtlMs == Default(mwOptions.cacheTtlMs, DEFAULT_CACHE_TTL_MS)
        attachPrisma == Default(mwOptions.attachPrisma, TRUE)
        tenantSlug == ChosenSlug(me.request)
        user == ChosenUser(me.request)
        now == clock
        cached == tenantCache[tenantSlug[1]]
    IN  /\ me.pc = "received"
        /\ UNCHANGED <<mwOptions, tenantCache, cacheStoredAt, platformDb, clock>>
        /\ UNCHANGED besidesMw
        /\ IF ~Truthy(tenantSlug)
           THEN /\ UNCHANGED currentTenant
                /\ IF optional
                   THEN Slot(i, [me EXCEPT !.pc = "done", !.nextCalls = @ + 1])
                   ELSE Slot(i, [me EXCEPT !.pc = "done",
                                    !.response = Response(400, "TENANT_REQUIRED")])
           ELSE IF cached # None /\ now - cached[1].timestamp < cacheTtlMs
           THEN /\ currentTenant' = Some(cached[1].info)
                /\ Slot(i, [me EXCEPT
                        !.tenantSlug = tenantSlug, !.user = user, !.now = now,
                        !.tenantInfo = Some(cached[1].info), !.reqUser = user,
                        !.pc = IF attachPrisma THEN "connect" ELSE "done",
                        !.nextCalls = IF attachPrisma THEN @ ELSE @ + 1])
           ELSE /\ UNCHANGED currentTenant
                /\ Slot(i, [me EXCEPT !.tenantSlug = tenantSlug, !.user = user,
                                     !.now = now, !.pc = "lookup"])

\* platformPrisma.tenant.findUnique answers, and the handler runs on to its
\* next await: steps 5 to 8.  The database may fail instead.
MwLookup(i) ==
    LET me == inflight[i]
        attachPrisma == Default(mwOptions.attachPrisma, TRUE)
        tenant == platformDb[me.tenantSlug[1]]
        tenantInfo == BuildTenantInfo(tenant[1])
    IN  /\ me.pc = "lookup"
        /\ UNCHANGED <<mwOptions, platformDb, clock>>
        /\ UNCHANGED besidesMw
        /\ \E fails \in BOOLEAN :
             IF fails
             THEN /\ Slot(i, [me EXCEPT !.pc = "done",
                                  !.response = Response(503, "SERVICE_UNAVAILABLE")])
                  /\ UNCHANGED <<tenantCache, cacheStoredAt, currentTenant>>
             ELSE IF tenant = None
             THEN /\ Slot(i, [me EXCEPT !.pc = "done",
                                  !.response = Response(404, "NOT_FOUND")])
                  /\ UNCHANGED <<tenantCache, cacheStoredAt, currentTenant>>
             ELSE IF tenant[1].status # "ACTIVE"
             THEN /\ Slot(i, [me EXCEPT !.pc = "done",
                                  !.response = Response(403, "ACCESS_DENIED")])
                  /\ UNCHANGED <<tenantCache, cacheStoredAt, currentTenant>>
             ELSE /\ tenantCache' =
                        [tenantCache EXCEPT ![me.tenantSlug[1]] =
                            Some([info |-> tenantInfo, timestamp |-> me.now])]
                  /\ cacheStoredAt' =
                        [cacheStoredAt EXCEPT ![me.tenantSlug[1]] = clock]
                  /\ currentTenant' = Some(tenantInfo)
                  /\ Slot(i, [me EXCEPT
                          !.tenantInfo = Some(tenantInfo), !.reqUser = me.user,
                          !.pc = IF attachPrisma THEN "connect" ELSE "done",
                          !.nextCalls = IF attachPrisma THEN @ ELSE @ + 1])

\* getTenantConnection answers (or fails), and the handler calls next().
MwConnect(i) ==
    LET me == inflight[i]
    IN  /\ me.pc = "connect"
        /\ UNCHANGED <<mwOptions, tenantCache, cacheStoredAt, currentTenant,
                   platformDb, clock>>
        /\ UNCHANGED besidesMw
        /\ \E fails \in BOOLEAN :
             IF fails
             THEN Slot(i, [me EXCEPT !.pc = "done",
                              !.response = Response(503, "SERVICE_UNAVAILABLE")])
             ELSE Slot(i, [me EXCEPT !.pc = "done",
                              !.tenantPrisma = Some(me.tenantInfo[1].tenantSlug),
                              !.nextCalls = @ + 1])

\* clearTenantMiddlewareCache()
clearTenantMiddlewareCache ==
    /\ tenantCache' = [k \in DOMAIN tenantCache |-> None]
    /\ cacheStoredAt' = [k \in DOMAIN cacheStoredAt |-> 0]
    /\ UNCHANGED <<mwOptions, currentTenant, platformDb, clock, inflight>>
    /\ UNCHANGED besidesMw

\* invalidateTenantFromCache(tenantSlug)
invalidateTenantFromCache(tenantSlug) ==
    /\ tenantCache' = [tenantCache EXCEPT ![tenantSlug] = None]
    /\ cacheStoredAt' = [cacheStoredAt EXCEPT ![tenantSlug] = 0]
    /\ UNCHANGED <<mwOptions, currentTenant, platformDb, clock, inflight>>
    /\ UNCHANGED besidesMw

-----------------------------------------------------------------------------
(* The factory's configurations, database and requests the model draws from *)

\* The requests the factory's middleware handles at once.
MaxInFlight == 1

\* How often the clock advances, and by how much each time.
MaxTicks == 2

TickMs == DEFAULT_CACHE_TTL_MS \div 2

RequestIds == 1..MaxInFlight

\* The slugs requests name; "ghost" is no tenant of the platform.
SlugSet == {"acme", "beta", "ghost"}

Row(id, slug, status, planSlug, addons) ==
    [id |-> id, slug |-> slug, name |-> slug, databaseName |-> "db_" \o slug,
     status |-> status, planSlug |-> planSlug, addons |-> addons]

PlatformDbSet ==
    { [k \in SlugSet |->
         IF k = "acme" THEN Some(Row("t-acme", "acme", "ACTIVE", Some("growth"),
                                     {"AI_SEARCH"}))
         ELSE IF k = "beta" THEN beta
         ELSE None] :
      beta \in {Some(Row("t-beta", "beta", "ACTIVE", None, {})),
                Some(Row("t-beta", "beta", "SUSPENDED", Some("custom"), {}))} }

MwOptionSet ==
    { [optional |-> opt, cacheTtlMs |-> None, attachPrisma |-> att] :
        opt \in {None, Some(TRUE)}, att \in {None, Some(FALSE)} }

Payload(sub, tenantId, tenantSlug) ==
    [sub |-> sub, email |-> sub \o "@example.com", tenantId |-> tenantId,
     tenantSlug |-> tenantSlug]

MwTokenSet ==
    { [verifies |-> FALSE, payload |-> Payload("mallory", Some("t-acme"), Some("acme"))],
      [verifies |-> TRUE, payload |-> Payload("alice", Some("t-acme"), Some("acme"))],
      [verifies |-> TRUE, payload |-> Payload("alice", None, Some("acme"))],
      [verifies |-> TRUE, payload |-> Payload("alice", Some("t-acme"), None)] }

MwRequestSet ==
    { MwRequest(token, slug) :
        token \in {None} \cup {Some(t) : t \in MwTokenSet},
        slug \in {None, Some("")} \cup {Some(k) : k \in SlugSet} }

MwInit ==
    /\ mwOptions \in MwOptionSet
    /\ tenantCache = [k \in SlugSet \cup {""} |-> None]
    /\ cacheStoredAt = [k \in SlugSet \cup {""} |-> 0]
    /\ currentTenant = None
    /\ platformDb \in PlatformDbSet
    /\ clock = Now
    /\ inflight = [i \in RequestIds |-> IdleSlot]

\* A request arrives at the factory's middleware.
MwReceive(i) ==
    /\ inflight[i].pc = "idle"
    /\ \E r \in MwRequestSet :
           Slot(i, [IdleSlot EXCEPT !.pc = "received", !.request = r])
    /\ UNCHANGED <<mwOptions, tenantCache, cacheStoredAt, currentTenant,
                   platformDb, clock>>
    /\ UNCHANGED besidesMw

\* The request is over: its req and res are dropped.
MwRelease(i) ==
    /\ inflight[i].pc = "done"
    /\ Slot(i, IdleSlot)
    /\ UNCHANGED <<mwOptions, tenantCache, cacheStoredAt, currentTenant,
                   platformDb, clock>>
    /\ UNCHANGED besidesMw

\* Time passes.
Tick ==
    /\ clock < Now + MaxTicks * TickMs
    /\ clock' = clock + TickMs
    /\ UNCHANGED <<mwOptions, tenantCache, cacheStoredAt, currentTenant,
                   platformDb, inflight>>
    /\ UNCHANGED besidesMw

-----------------------------------------------------------------------------
(* src/src/guards.ts: the isolation guards *)

requireTenant(tenant) ==
    IF tenant = None THEN Thrown(TenantMissingError) ELSE Returned(tenant[1])

getTenantId(tenant) ==
    LET t == requireTenant(tenant)
    IN  IF t.ok THEN Returned(t.value.id) ELSE t

requireActiveTenantLenient(tenant) ==
    LET t == requireTenant(tenant)
    IN  IF ~t.ok THEN t
        ELSE IF t.value.status = "SUSPENDED" THEN Thrown(TenantSuspendedError)
        ELSE t

requireActiveTenant(tenant) ==
    LET t == requireTenant(tenant)
    IN  IF ~t.ok THEN t
        ELSE IF t.value.status = "SUSPENDED" THEN Thrown(TenantSuspendedError)
        ELSE IF t.value.status = "ARCHIVED" THEN Thrown(TenantArchivedError)
        ELSE t

\* The object literal {...first, ...second}: an object is a function from
\* its keys, and a key of both takes the value written last.
Spread(first, second) ==
    [k \in DOMAIN first \cup DOMAIN second |->
        IF k \in DOMAIN second THEN second[k] ELSE first[k]]

\* { siteId: getTenantId(tenant), ...where }
tenantWhere(tenant, where) ==
    LET siteId == getTenantId(tenant)
    IN  IF ~siteId.ok THEN siteId
        ELSE Returned(Spread([siteId |-> siteId.value], where))

\* { siteId: getTenantId(tenant), ...data }
tenantData(tenant, data) ==
    LET siteId == getTenantId(tenant)
    IN  IF ~siteId.ok THEN siteId
        ELSE Returned(Spread([siteId |-> siteId.value], data))

\* new TenantMissingError(message): the class's code and status with the
\* message the caller passes; no details are given to the constructor.
TenantMissingErrorOf(message) ==
    [name |-> "TenantMissingError", code |-> "TENANT_MISSING",
     statusCode |-> 400, message |-> message, details |-> None]

\* A record's siteId is an optional string: None is null or undefined, and
\* !recordSiteId holds of None and of the empty string.
validateTenantOwnershipNaming(tenant, recordSiteId) ==
    LET currentTenantId == getTenantId(tenant)
    IN  IF ~currentTenantId.ok THEN currentTenantId
        ELSE IF ~Truthy(recordSiteId)
        THEN Thrown(TenantMissingErrorOf("Record does not have a siteId"))
        ELSE IF recordSiteId[1] # currentTenantId.value
        THEN Thrown(TenantMissingErrorOf(
                 "Record " \o recordSiteId[1]
                     \o " does not belong to current tenant"))
        ELSE Returned(None)

validateTenantOwnership(tenant, recordSiteId) ==
    LET currentTenantId == getTenantId(tenant)
    IN  IF ~currentTenantId.ok THEN currentTenantId
        ELSE IF ~Truthy(recordSiteId)
        THEN Thrown(TenantMissingErrorOf("Record does not have a siteId"))
        ELSE IF recordSiteId[1] # currentTenantId.value
        THEN Thrown(TenantMissingErrorOf(
                 "Record does not belong to current tenant"))
        ELSE Returned(None)

belongsToTenantLoose(tenant, recordSiteId) ==
    IF tenant = None THEN FALSE
    ELSE ~Truthy(recordSiteId) \/ recordSiteId[1] = tenant[1].id

belongsToTenant(tenant, recordSiteId) ==
    IF tenant = None \/ ~Truthy(recordSiteId) THEN FALSE
    ELSE recordSiteId[1] = tenant[1].id

\* records.filter(record => record.siteId === tenantId)
RECURSIVE FilterBySiteId(_, _)
FilterBySiteId(records, tenantId) ==
    IF records = <<>> THEN <<>>
    ELSE LET rest == FilterBySiteId(Tail(records), tenantId)
         IN  IF Head(records).siteId = Some(tenantId)
             THEN <<Head(records)>> \o rest
             ELSE rest

filterByTenant(tenant, records) ==
    LET tenantId == getTenantId(tenant)
    IN  IF ~tenantId.ok THEN tenantId
        ELSE Returned(FilterBySiteId(records, tenantId.value))

\* The tenant contexts and the filters and payloads the guards are given.
GuardTenantSet ==
    {None} \cup { Some(Tenant(id, "slug-" \o id, st, "jwt")) :
                     id \in {"a", "b"}, st \in Statuses }

\* An object with the keys of its domain; the value "-" marks a key the
\* object does not have.
Object(siteId, status, name) ==
    LET all == [siteId |-> siteId, status |-> status, name |-> name]
    IN  [k \in {f \in DOMAIN all : all[f] # "-"} |-> all[k]]

GuardInputSet ==
    { Object(siteId, status, name) :
        siteId \in {"-", "a", "b", ""},
        status \in {"-", "PUBLISHED"},
        name \in {"-", "Widget"} }

NoCall == [op |-> "none", tenant |-> None, input |-> Object("-", "-", "-")]

GuardInit ==
    /\ guardCall = NoCall
    /\ guardResult = Returned(None)

\* tenantWhere(tenant, where) is called.
CallTenantWhere ==
    /\ \E t \in GuardTenantSet, w \in GuardInputSet :
         /\ guardCall' = [op |-> "tenantWhere", tenant |-> t, input |-> w]
         /\ guardResult' = tenantWhere(t, w)
    /\ UNCHANGED besidesGuards

\* tenantData(tenant, data) is called.
CallTenantData ==
    /\ \E t \in GuardTenantSet, d \in GuardInputSet :
         /\ guardCall' = [op |-> "tenantData", tenant |-> t, input |-> d]
         /\ guardResult' = tenantData(t, d)
    /\ UNCHANGED besidesGuards

\* The siteId of a record: absent, empty, a tenant's, or no tenant's.
RecordSiteIdSet == {None, Some(""), Some("a"), Some("b"), Some("c")}

\* A stored record, with the key that tells equal rows apart.
Record(key, siteId) == [key |-> key, siteId |-> siteId]

MaxRecords == 2

\* Lists of records without siteId, with an empty one, of either tenant,
\* and with two different records of the same tenant.
RecordListSet ==
    UNION { [1..n -> { Record(1, sid) : sid \in RecordSiteIdSet \ {Some("c")} }
                        \cup {Record(2, Some("a"))}]
            : n \in 0..MaxRecords }

\* filterByTenant reads the id of the context only: no context, and either
\* tenant.
FilterTenantSet ==
    { t \in GuardTenantSet : t = None \/ t[1].status = "ACTIVE" }

\* requireTenant(tenant) is called.
CallRequireTenant ==
    /\ \E t \in GuardTenantSet :
         /\ guardCall' = [op |-> "requireTenant", tenant |-> t,
                          input |-> Object("-", "-", "-")]
         /\ guardResult' = requireTenant(t)
    /\ UNCHANGED besidesGuards

\* requireActiveTenant(tenant) is called.
CallRequireActiveTenant ==
    /\ \E t \in GuardTenantSet :
         /\ guardCall' = [op |-> "requireActiveTenant", tenant |-> t,
                          input |-> Object("-", "-", "-")]
         /\ guardResult' = requireActiveTenant(t)
    /\ UNCHANGED besidesGuards

\* validateTenantOwnership(tenant, recordSiteId) is called.
CallValidateTenantOwnership ==
    /\ \E t \in GuardTenantSet, sid \in RecordSiteIdSet :
         /\ guardCall' = [op |-> "validateTenantOwnership", tenant |-> t,
                          input |-> sid]
         /\ guardResult' = validateTenantOwnership(t, sid)
    /\ UNCHANGED besidesGuards

\* belongsToTenant(tenant, recordSiteId) is called.
CallBelongsToTenant ==
    /\ \E t \in GuardTenantSet, sid \in RecordSiteIdSet :
         /\ guardCall' = [op |-> "belongsToTenant", tenant |-> t,
                          input |-> sid]
         /\ guardResult' = Returned(Some(belongsToTenant(t, sid)))
    /\ UNCHANGED besidesGuards

\* filterByTenant(tenant, records) is called.
CallFilterByTenant ==
    /\ \E t \in FilterTenantSet, records \in RecordListSet :
         /\ guardCall' = [op |-> "filterByTenant", tenant |-> t,
                          input |-> records]
         /\ guardResult' = filterByTenant(t, records)
    /\ UNCHANGED besidesGuards

-----------------------------------------------------------------------------
(* src/src/express/rate-limit.ts: the sliding-window rate limiter *)

RATE_LIMIT_PREFIX == "ratelimit:"

WINDOW_SIZE_MS == 60000

\* multi.expire(currentKey, 120)
COUNTER_EXPIRY_SECONDS == 120

\* getCurrentWindow(), reading the clock at instant now.
getCurrentWindow(now) == now \div WINDOW_SIZE_MS

getWindowKey(baseKey, window) ==
    RATE_LIMIT_PREFIX \o baseKey \o ":" \o ToString(window)

\* Redis GET: the counter as a string, null (None) for a key that is absent
\* or has expired.
RedisGet(store, k) ==
    IF k \in DOMAIN store THEN Some(ToString(store[k].count)) ELSE None

\* The value of the counter of a key and window, 0 when there is none.
CountOf(store, baseKey, window) ==
    IF getWindowKey(baseKey, window) \in DOMAIN store
    THEN store[getWindowKey(baseKey, window)].count
    ELSE 0

\* MULTI / INCR / EXPIRE as it would be if the expiry were set only when the
\* counter is created.
RedisIncrExpireOnce(store, k, seconds, now) ==
    [x \in DOMAIN store \cup {k} |->
        IF x = k
        THEN IF k \in DOMAIN store
             THEN [store[k] EXCEPT !.count = @ + 1]
             ELSE [count |-> 1, expireAt |-> now + seconds * 1000]
        ELSE store[x]]

\* Redis MULTI / INCR k / EXPIRE k seconds / EXEC, executed at instant now.
RedisIncrExpire(store, k, seconds, now) ==
    [x \in DOMAIN store \cup {k} |->
        IF x = k
        THEN [count |-> (IF k \in DOMAIN store THEN store[k].count ELSE 0) + 1,
              expireAt |-> now + seconds * 1000]
        ELSE store[x]]

\* Redis drops the keys whose expiry has passed.
RedisExpire(store, now) ==
    [x \in {k \in DOMAIN store : store[k].expireAt > now} |-> store[x]]

\* Math.ceil(a / b) and Math.floor(a / b) for b > 0.
CeilDiv(a, b) == -((-a) \div b)

FloorDiv(a, b) == a \div b

Max(a, b) == IF a >= b THEN a ELSE b

\* weightedCount * WINDOW_SIZE_MS, with
\*   weightedCount = currentRequests + previousRequests * previousWeight,
\*   previousWeight = 1 - elapsedInCurrentWindow / WINDOW_SIZE_MS.
\* The instants of the model lie on halves of a window, where the
\* floating-point weight and product of the code are exact.
WeightedCountScaled(currentRequests, previousRequests, elapsed) ==
    currentRequests * WINDOW_SIZE_MS + previousRequests * (WINDOW_SIZE_MS - elapsed)

\* The decision as it would be with `<=` for `<` in the comparison.
RateLimitDecisionInclusive(key, limit, burstAllowance, currentWindow, currentCount, previousCount, now) ==
    LET currentRequests == ParseInt(OrElse(currentCount, Some("0"))[1])[1]
        previousRequests == ParseInt(OrElse(previousCount, Some("0"))[1])[1]
        elapsedInCurrentWindow == now % WINDOW_SIZE_MS
        weighted == WeightedCountScaled(currentRequests, previousRequests,
                                        elapsedInCurrentWindow)
        effectiveLimit == limit + burstAllowance
        resetAt == (currentWindow + 1) * WINDOW_SIZE_MS
    IN  [allowed |-> weighted <= effectiveLimit * WINDOW_SIZE_MS,
         info |-> [key |-> key,
                   limit |-> limit,
                   remaining |-> Max(0, FloorDiv(effectiveLimit * WINDOW_SIZE_MS
                                                 - weighted, WINDOW_SIZE_MS)),
                   resetAt |-> resetAt,
                   retryAfterSeconds |-> CeilDiv(resetAt - now, 1000)]]

\* The decision as it would be without Math.max(0, ..) around remaining.
RateLimitDecisionUnclamped(key, limit, burstAllowance, currentWindow, currentCount, previousCount, now) ==
    LET currentRequests == ParseInt(OrElse(currentCount, Some("0"))[1])[1]
        previousRequests == ParseInt(OrElse(previousCount, Some("0"))[1])[1]
        elapsedInCurrentWindow == now % WINDOW_SIZE_MS
        weighted == WeightedCountScaled(currentRequests, previousRequests,
                                        elapsedInCurrentWindow)
        effectiveLimit == limit + burstAllowance
        resetAt == (currentWindow + 1) * WINDOW_SIZE_MS
    IN  [allowed |-> weighted < effectiveLimit * WINDOW_SIZE_MS,
         info |-> [key |-> key,
                   limit |-> limit,
                   remaining |-> FloorDiv(effectiveLimit * WINDOW_SIZE_MS
                                          - weighted, WINDOW_SIZE_MS),
                   resetAt |-> resetAt,
                   retryAfterSeconds |-> CeilDiv(resetAt - now, 1000)]]

\* What checkRateLimit computes after the reads have returned, at instant
\* now: lines 106 to 128.
RateLimitDecision(key, limit, burstAllowance, currentWindow, currentCount, previousCount, now) ==
    LET currentRequests == ParseInt(OrElse(currentCount, Some("0"))[1])[1]
        previousRequests == ParseInt(OrElse(previousCount, Some("0"))[1])[1]
        elapsedInCurrentWindow == now % WINDOW_SIZE_MS
        weighted == WeightedCountScaled(currentRequests, previousRequests,
                                        elapsedInCurrentWindow)
        effectiveLimit == limit + burstAllowance
        resetAt == (currentWindow + 1) * WINDOW_SIZE_MS
    IN  [allowed |-> weighted < effectiveLimit * WINDOW_SIZE_MS,
         info |-> [key |-> key,
                   limit |-> limit,
                   remaining |-> Max(0, FloorDiv(effectiveLimit * WINDOW_SIZE_MS
                                                 - weighted, WINDOW_SIZE_MS)),
                   resetAt |-> resetAt,
                   retryAfterSeconds |-> CeilDiv(resetAt - now, 1000)]]

\* The bounds of the rate limiter's model.
MaxRlInFlight == 2

MaxRlCalls == 4

MaxRlTicks == 4

\* Time passes in halves of a window.
RlTickMs == WINDOW_SIZE_MS \div 2

\* The first instant of the model: the start of a window.
RlEpoch == 100 * WINDOW_SIZE_MS

RlSlots == 1..MaxRlInFlight

\* The key the calls are made for, and the key of another client.
RlKeySet == {"tenant:a"}

OtherRlKey == "ip:203.0.113.5"

RlConfigSet == [requestsPerMinute : {1, 2}, burstAllowance : {0, 1}]

IdleCall == [pc |-> "idle", key |-> "", currentWindow |-> 0,
             currentCount |-> None, previousCount |-> None,
             startedAt |-> 0, nth |-> 0]

\* No call was made for the key yet.
NoRun == [window |-> 0, issued |-> 0, clean |-> TRUE, total |-> 0]

EmptyStore == [x \in {} |-> [count |-> 0, expireAt |-> 0]]

\* The store after one request of the other client was allowed at the first
\* instant.
OtherClientStore ==
    RedisIncrExpire(EmptyStore, getWindowKey(OtherRlKey, getCurrentWindow(RlEpoch)),
                    COUNTER_EXPIRY_SECONDS, RlEpoch)

RlInit ==
    /\ rlConfig \in RlConfigSet
    /\ rlStore = OtherClientStore
    /\ rlNow = RlEpoch
    /\ rlCalls = [i \in RlSlots |-> IdleCall]
    /\ rlRun = [k \in RlKeySet |-> NoRun]
    /\ rlLast = None

\* No call was made and the counter store is empty.
RlIdle ==
    /\ rlConfig = [requestsPerMinute |-> 1, burstAllowance |-> 0]
    /\ rlStore = EmptyStore
    /\ rlNow = RlEpoch
    /\ rlCalls = [i \in RlSlots |-> IdleCall]
    /\ rlRun = [k \in RlKeySet |-> NoRun]
    /\ rlLast = None

\* checkRateLimit(key, limit, burstAllowance) up to its first await: the
\* window is computed and the two counters are read.  rlRun counts the calls
\* made for the key, in all and in this window, and notes whether they were made one
\* after another, each returning inside the window, the first of them
\* finding no counter of the window before.
RlStart(i, key) ==
    LET currentWindow == getCurrentWindow(rlNow)
        previousWindow == currentWindow - 1
        currentKey == getWindowKey(key, currentWindow)
        previousKey == getWindowKey(key, previousWindow)
        previousCount == RedisGet(rlStore, previousKey)
        overlaps == \E j \in RlSlots :
                       rlCalls[j].pc # "idle" /\ rlCalls[j].key = key
        run == IF rlRun[key].window = currentWindow
               THEN [rlRun[key] EXCEPT !.issued = @ + 1, !.total = @ + 1,
                                       !.clean = @ /\ ~overlaps]
               ELSE [window |-> currentWindow, issued |-> 1,
                     clean |-> ~overlaps /\ previousCount = None,
                     total |-> rlRun[key].total + 1]
    IN  /\ rlCalls[i].pc = "idle"
        /\ \A j \in RlSlots : j < i => rlCalls[j].pc # "idle"
        /\ run.total <= MaxRlCalls
        /\ rlCalls' = [rlCalls EXCEPT ![i] =
               [pc |-> "reading", key |-> key, currentWindow |-> currentWindow,
                currentCount |-> RedisGet(rlStore, currentKey),
                previousCount |-> previousCount,
                startedAt |-> rlNow, nth |-> run.issued]]
        /\ rlRun' = [rlRun EXCEPT ![key] = run]
        /\ UNCHANGED <<rlConfig, rlStore, rlNow, rlLast>>
        /\ UNCHANGED besidesRl

\* The rest of checkRateLimit as it would be if the counter were incremented
\* before the decision is looked at, for denied requests too.
RlFinishCounting(i) ==
    LET me == rlCalls[i]
        decision == RateLimitDecision(me.key, rlConfig.requestsPerMinute,
                                      rlConfig.burstAllowance, me.currentWindow,
                                      me.currentCount, me.previousCount, rlNow)
        currentKey == getWindowKey(me.key, me.currentWindow)
        stored == RedisIncrExpire(rlStore, currentKey,
                                  COUNTER_EXPIRY_SECONDS, rlNow)
        run == [rlRun[me.key] EXCEPT
                   !.clean = @ /\ getCurrentWindow(rlNow) = me.currentWindow]
    IN  /\ me.pc = "reading"
        /\ rlStore' = stored
        /\ rlCalls' = [rlCalls EXCEPT ![i] = IdleCall]
        /\ rlRun' = [rlRun EXCEPT ![me.key] = run]
        /\ rlLast' = Some(
               [key |-> me.key, currentWindow |-> me.currentWindow,
                currentCount |-> me.currentCount,
                previousCount |-> me.previousCount,
                startedAt |-> me.startedAt, decidedAt |-> rlNow,
                nth |-> me.nth,
                clean |-> run.clean /\ run.window = me.currentWindow,
                undisturbed |->
                    /\ RedisGet(rlStore, currentKey) = me.currentCount
                    /\ RedisGet(rlStore, getWindowKey(me.key, me.currentWindow - 1))
                           = me.previousCount,
                countNow |-> CountOf(rlStore, me.key, getCurrentWindow(rlNow)),
                countBefore |-> CountOf(rlStore, me.key, getCurrentWindow(rlNow) - 1),
                allowed |-> decision.allowed, info |-> decision.info])
        /\ UNCHANGED <<rlConfig, rlNow>>
        /\ UNCHANGED besidesRl

\* checkRateLimit after the reads have returned: the decision, the
\* increment when the request is allowed, and the return.
RlFinish(i) ==
    LET me == rlCalls[i]
        decision == RateLimitDecision(me.key, rlConfig.requestsPerMinute,
                                      rlConfig.burstAllowance, me.currentWindow,
                                      me.currentCount, me.previousCount, rlNow)
        currentKey == getWindowKey(me.key, me.currentWindow)
        stored == IF decision.allowed
                  THEN RedisIncrExpire(rlStore, currentKey,
                                       COUNTER_EXPIRY_SECONDS, rlNow)
                  ELSE rlStore
        run == [rlRun[me.key] EXCEPT
                   !.clean = @ /\ getCurrentWindow(rlNow) = me.currentWindow]
    IN  /\ me.pc = "reading"
        /\ rlStore' = stored
        /\ rlCalls' = [rlCalls EXCEPT ![i] = IdleCall]
        /\ rlRun' = [rlRun EXCEPT ![me.key] = run]
        /\ rlLast' = Some(
               [key |-> me.key, currentWindow |-> me.currentWindow,
                currentCount |-> me.currentCount,
                previousCount |-> me.previousCount,
                startedAt |-> me.startedAt, decidedAt |-> rlNow,
                nth |-> me.nth,
                clean |-> run.clean /\ run.window = me.currentWindow,
                undisturbed |->
                    /\ RedisGet(rlStore, currentKey) = me.currentCount
                    /\ RedisGet(rlStore, getWindowKey(me.key, me.currentWindow - 1))
                           = me.previousCount,
                countNow |-> CountOf(rlStore, me.key, getCurrentWindow(rlNow)),
                countBefore |-> CountOf(rlStore, me.key, getCurrentWindow(rlNow) - 1),
                allowed |-> decision.allowed, info |-> decision.info])
        /\ UNCHANGED <<rlConfig, rlNow>>
        /\ UNCHANGED besidesRl

\* Time passes; Redis drops the counters that have expired.
RlTick ==
    /\ rlNow < RlEpoch + MaxRlTicks * RlTickMs
    /\ rlNow' = rlNow + RlTickMs
    /\ rlStore' = RedisExpire(rlStore, rlNow + RlTickMs)
    /\ UNCHANGED <<rlConfig, rlCalls, rlRun, rlLast>>
    /\ UNCHANGED besidesRl

-----------------------------------------------------------------------------
(* The tenant resolver and its cache: src/unnamed/part_003 *)

CACHE_TTL_MS == 60000

\* A row of prisma.tenant, with the columns the resolver selects.
TenantRow(id, slug, status, customDomain, customDomainStatus, settings) ==
    [id |-> id, slug |-> slug, name |-> slug, status |-> status,
     databaseName |-> "db_" \o slug, customDomain |-> customDomain,
     customDomainStatus |-> customDomainStatus, settings |-> settings]

\* mapTenantToResolved(tenant): settings || {}
mapTenantToResolved(tenant) ==
    [tenant EXCEPT !.settings = IF @ # None THEN @ ELSE Some("{}")]

\* prisma.tenant.findUnique({ where: { slug } })
findUnique(table, slug) ==
    IF slug \in DOMAIN table THEN table[slug] ELSE None

\* prisma.tenant.findFirst({ where: { customDomain, customDomainStatus:
\* 'VERIFIED' } }); customDomain is unique, so at most one row matches.
findFirst(table, domain) ==
    LET matches == { k \in DOMAIN table :
                       /\ table[k] # None
                       /\ table[k][1].customDomain = Some(domain)
                       /\ table[k][1].customDomainStatus = "VERIFIED" }
    IN  IF matches = {} THEN None ELSE table[CHOOSE k \in matches : TRUE]

\* The cache key of a lookup: `slug:${slug}` or `domain:${domain}`.
CacheKey(fn, arg) == (IF fn = "slug" THEN "slug:" ELSE "domain:") \o arg

\* Map.delete(key): a key the map does not hold is left alone.
MapDelete(cache, key) ==
    IF key \in DOMAIN cache THEN [cache EXCEPT ![key] = None] ELSE cache

\* Map.clear()
MapClear(cache) == [k \in DOMAIN cache |-> None]

\* clearTenantCache(key?): `if (key)` is false of undefined and of "".
clearTenantCache(cache, key) ==
    IF Truthy(key) THEN MapDelete(cache, key[1]) ELSE MapClear(cache)

\* invalidateTenantCache(slug, customDomain?)
invalidateTenantCache(cache, slug, customDomain) ==
    LET bySlug == MapDelete(cache, "slug:" \o slug)
    IN  IF Truthy(customDomain)
        THEN MapDelete(bySlug, "domain:" \o customDomain[1])
        ELSE bySlug

\* The lookups in flight at once, and how often the clock advances.
MaxRsInFlight == 1

MaxRsTicks == 3

RsTickMs == CACHE_TTL_MS \div 2

RsEpoch == 100 * CACHE_TTL_MS

RsSlots == 1..MaxRsInFlight

\* The tenant of the table, its custom domain, and a slug of no tenant.
RsSlug == "acme"

RsDomain == "shop.acme.com"

RsLookupSet == {<<"slug", RsSlug>>, <<"slug", "ghost">>, <<"domain", RsDomain>>}

RsCacheKeys == { CacheKey(l[1], l[2]) : l \in RsLookupSet }

RsRow(status) ==
    TenantRow("t-acme", RsSlug, status, Some(RsDomain), "VERIFIED", None)

RsStatuses == {"ACTIVE", "SUSPENDED"}

IdleLookup ==
    [pc |-> "idle", fn |-> "slug", arg |-> "", bypassCache |-> FALSE,
     startedAt |-> 0, answer |-> None, failed |-> FALSE, repoCalls |-> 0,
     fromCache |-> FALSE, result |-> None]

\* History: no lookup holds, and no cache entry was stored from, an answer
\* the repository gave before an invalidation of its key.
NotOutdated ==
    [calls |-> [i \in RsSlots |-> FALSE], entries |-> [k \in RsCacheKeys |-> FALSE]]

\* A cache with an entry under every key: what an invalidation leaves of it
\* tells the keys it removes.
FullCache ==
    [k \in RsCacheKeys |-> Some([tenant |-> k, timestamp |-> 0])]

\* History, after an invalidation that leaves `left` of the full cache: the
\* lookups that hold the repository's answer for a removed key are
\* overtaken by it, and the removed entries are gone.
Overtaken(left) ==
    [calls |-> [i \in RsSlots |->
                   \/ rsOutdated.calls[i]
                   \/ /\ rsCalls[i].pc = "answered"
                      /\ left[CacheKey(rsCalls[i].fn, rsCalls[i].arg)] = None],
     entries |-> [k \in RsCacheKeys |->
                   rsOutdated.entries[k] /\ left[k] # None]]

RsIdle ==
    /\ rsCache = [k \in RsCacheKeys |-> None]
    /\ rsTable = [k \in {RsSlug} |-> Some(RsRow("ACTIVE"))]
    /\ rsNow = RsEpoch
    /\ rsCalls = [i \in RsSlots |-> IdleLookup]
    /\ rsChangedAt = 0
    /\ rsOutdated = NotOutdated

RsInit ==
    /\ RsIdle

\* cached && Date.now() - cached.timestamp < CACHE_TTL_MS
Fresh(cached, now) ==
    cached # None /\ now - cached[1].timestamp < CACHE_TTL_MS

\* resolveTenantBySlug(arg, bypassCache) or resolveTenantByCustomDomain(arg,
\* bypassCache) is called and runs to its return from the cache or to its
\* await of the repository.
RsCall(i, fn, arg, bypassCache) ==
    LET cacheKey == CacheKey(fn, arg)
        cached == rsCache[cacheKey]
        frame == [IdleLookup EXCEPT
                     !.fn = fn, !.arg = arg, !.bypassCache = bypassCache,
                     !.startedAt = rsNow]
    IN  /\ rsCalls[i].pc = "idle"
        /\ \A j \in RsSlots : j < i => rsCalls[j].pc # "idle"
        /\ IF ~bypassCache /\ Fresh(cached, rsNow)
           THEN rsCalls' = [rsCalls EXCEPT ![i] =
                    [frame EXCEPT !.pc = "returned", !.fromCache = TRUE,
                                  !.result = Some(cached[1].tenant)]]
           ELSE rsCalls' = [rsCalls EXCEPT ![i] =
                    [frame EXCEPT !.pc = "query", !.repoCalls = 1]]
        /\ UNCHANGED <<rsCache, rsTable, rsNow, rsChangedAt, rsOutdated>>
        /\ UNCHANGED besidesRs

\* The repository runs the query of call i, or fails.
RsQuery(i) ==
    LET me == rsCalls[i]
        tenant == IF me.fn = "slug" THEN findUnique(rsTable, me.arg)
                  ELSE findFirst(rsTable, me.arg)
    IN  /\ me.pc = "query"
        /\ \E fails \in BOOLEAN :
             rsCalls' = [rsCalls EXCEPT ![i] =
                 [me EXCEPT !.pc = "answered", !.failed = fails,
                            !.answer = IF fails THEN None ELSE tenant]]
        /\ UNCHANGED <<rsCache, rsTable, rsNow, rsChangedAt, rsOutdated>>
        /\ UNCHANGED besidesRs

\* The lookup resumes after its await and returns.
RsReturn(i) ==
    LET me == rsCalls[i]
        cacheKey == CacheKey(me.fn, me.arg)
        resolved == mapTenantToResolved(me.answer[1])
    IN  /\ me.pc = "answered"
        /\ IF me.failed \/ me.answer = None
           THEN /\ rsCalls' = [rsCalls EXCEPT ![i] = [me EXCEPT !.pc = "returned"]]
                /\ UNCHANGED <<rsCache, rsOutdated>>
           ELSE /\ rsCache' = [rsCache EXCEPT ![cacheKey] =
                       Some([tenant |-> resolved, timestamp |-> rsNow])]
                /\ rsCalls' = [rsCalls EXCEPT ![i] =
                       [me EXCEPT !.pc = "returned", !.result = Some(resolved)]]
                /\ rsOutdated' = [rsOutdated EXCEPT
                       !.entries[cacheKey] = rsOutdated.calls[i]]
        /\ UNCHANGED <<rsTable, rsNow, rsChangedAt>>
        /\ UNCHANGED besidesRs

\* The caller is done with the result of call i.
RsRelease(i) ==
    /\ rsCalls[i].pc = "returned"
    /\ rsCalls' = [rsCalls EXCEPT ![i] = IdleLookup]
    /\ rsOutdated' = [rsOutdated EXCEPT !.calls[i] = FALSE]
    /\ UNCHANGED <<rsCache, rsTable, rsNow, rsChangedAt>>
    /\ UNCHANGED besidesRs

\* clearTenantCache(key) is called.
RsClear(key) ==
    /\ rsCache' = clearTenantCache(rsCache, key)
    /\ rsOutdated' = Overtaken(clearTenantCache(FullCache, key))
    /\ UNCHANGED <<rsTable, rsNow, rsCalls, rsChangedAt>>
    /\ UNCHANGED besidesRs

\* invalidateTenantCache(slug, customDomain) is called.
RsInvalidate(slug, customDomain) ==
    /\ rsCache' = invalidateTenantCache(rsCache, slug, customDomain)
    /\ rsOutdated' = Overtaken(invalidateTenantCache(FullCache, slug, customDomain))
    /\ UNCHANGED <<rsTable, rsNow, rsCalls, rsChangedAt>>
    /\ UNCHANGED besidesRs

\* The tenant directory changes the tenant's status, deletes the tenant or
\* creates it again.
RsChange(row) ==
    /\ rsTable[RsSlug] # row
    /\ rsTable' = [rsTable EXCEPT ![RsSlug] = row]
    /\ rsChangedAt' = rsNow
    /\ UNCHANGED <<rsCache, rsNow, rsCalls, rsOutdated>>
    /\ UNCHANGED besidesRs

\* Time passes.
RsTick ==
    /\ rsNow < RsEpoch + MaxRsTicks * RsTickMs
    /\ rsNow' = rsNow + RsTickMs
    /\ UNCHANGED <<rsCache, rsTable, rsCalls, rsChangedAt, rsOutdated>>
    /\ UNCHANGED besidesRs

PLATFORM_DOMAINS == <<"localhost", "127.0.0.1", "platform.com", "platform.local">>

\* The for loop of extractSubdomain over the platform domains, in their
\* order: the first domain that host equals or ends with decides.
RECURSIVE SubdomainUnder(_, _)
SubdomainUnder(host, platformDomains) ==
    IF platformDomains = <<>> THEN None
    ELSE LET platformDomain == Head(platformDomains)
             subdomain == SubSeq(host, 1, Len(host) - (Len(platformDomain) + 1))
         IN  IF host = platformDomain THEN None
             ELSE IF EndsWith(host, "." \o platformDomain)
                  THEN IF subdomain = "" THEN None ELSE Some(subdomain)
             ELSE SubdomainUnder(host, Tail(platformDomains))

\* extractSubdomain(hostname, platformDomains = PLATFORM_DOMAINS); None is
\* an argument left out, and the null that is returned.
extractSubdomain(hostname, platformDomains) ==
    LET host == Split(hostname, ":")[1]
    IN  SubdomainUnder(host, Default(platformDomains, PLATFORM_DOMAINS))

Parsed(type, slug) == [type |-> type, slug |-> slug]

\* parseSubdomain(subdomain); None is null.
parseSubdomain(subdomain) ==
    LET parts == Split(subdomain, ".")
    IN  IF Len(parts) = 1 /\ parts[1] # ""
        THEN Some(Parsed("storefront", parts[1]))
        ELSE IF Len(parts) = 2 /\ parts[1] = "admin" /\ parts[2] # ""
        THEN Some(Parsed("admin", parts[2]))
        ELSE IF Len(parts) = 2 /\ parts[1] = "api" /\ parts[2] # ""
        THEN Some(Parsed("api", parts[2]))
        ELSE None

\* Tenant slugs: one label each, one of them the word of a prefix.
HostSlugSet == {"acme", "admin"}

PortSet == {"", ":3000"}

\* The lists of platform domains a deployment configures: the default
\* (argument left out), the lists of the tests, and a platform with a
\* regional domain under its main one, in both orders.
PlatformDomainLists ==
    {None, Some(<<"localhost", "platform.com">>),
     Some(<<"platform.com", "eu.platform.com">>),
     Some(<<"eu.platform.com", "platform.com">>)}

\* Hosts under, at, beside and outside the platform domains.
HostnameSet ==
    { prefix \o domain \o port :
        prefix \in {"", "admin.", "api.", "staging.", "admin.extra.", "not", "."}
                    \cup { s \o "." : s \in HostSlugSet }
                    \cup { "admin." \o s \o "." : s \in HostSlugSet }
                    \cup { "api." \o s \o "." : s \in HostSlugSet },
        domain \in {"", "localhost", "127.0.0.1", "platform.com",
                    "platform.local", "eu.platform.com", "example.com"},
        port \in PortSet }

SubdomainSet ==
    {"", "acme", "admin", "test-store", "admin.acme", "api.acme", "admin.",
     ".acme", "api.", "unknown.acme", "staging.acme", "admin.acme.extra",
     "a.b.c.d", "acme.eu"}

\* extractSubdomain(hostname[, platformDomains]) is called.
CallExtractSubdomain ==
    /\ \E hostname \in HostnameSet, platformDomains \in PlatformDomainLists :
         /\ guardCall' = [op |-> "extractSubdomain", tenant |-> None,
                          input |-> [hostname |-> hostname,
                                     platformDomains |-> platformDomains]]
         /\ guardResult' = Returned(extractSubdomain(hostname, platformDomains))
    /\ UNCHANGED besidesGuards

\* parseSubdomain(subdomain) is called.
CallParseSubdomain ==
    /\ \E subdomain \in SubdomainSet :
         /\ guardCall' = [op |-> "parseSubdomain", tenant |-> None,
                          input |-> subdomain]
         /\ guardResult' = Returned(parseSubdomain(subdomain))
    /\ UNCHANGED besidesGuards

\* s.toLowerCase()
RECURSIVE ToLowerCase(_)
ToLowerCase(s) ==
    IF Len(s) = 0 THEN s
    ELSE LET c == SubSeq(s, 1, 1)
             i == IndexOf(UpperCase, c)
         IN  (IF i = 0 THEN c ELSE SubSeq(LowerCase, i, i))
             \o ToLowerCase(SubSeq(s, 2, Len(s)))

\* TenantResolutionResult
ResolutionFailure(error, source) ==
    [success |-> FALSE, tenant |-> None, error |-> Some(error), source |-> source]

ResolutionSuccess(tenant, source) ==
    [success |-> TRUE, tenant |-> Some(tenant), error |-> None, source |-> source]

\* resolveTenantFromHostname after its await: what it makes of the tenant
\* (or null) that resolveTenantBySlug(slug) returned.
FromSubdomain(slug, tenant) ==
    IF tenant = None
    THEN ResolutionFailure("Tenant not found: " \o slug, "subdomain")
    ELSE IF tenant[1].status # "ACTIVE"
    THEN ResolutionFailure("Tenant is " \o ToLowerCase(tenant[1].status),
                           "subdomain")
    ELSE ResolutionSuccess(tenant[1], "subdomain")

\* The same of the tenant that resolveTenantByCustomDomain(host) returned.
FromCustomDomain(tenant) ==
    IF tenant = None
    THEN ResolutionFailure("No tenant found for this domain", "custom-domain")
    ELSE IF tenant[1].status # "ACTIVE"
    THEN ResolutionFailure("Tenant is " \o ToLowerCase(tenant[1].status),
                           "custom-domain")
    ELSE IF tenant[1].customDomainStatus # "VERIFIED"
    THEN ResolutionFailure("Domain not verified", "custom-domain")
    ELSE ResolutionSuccess(tenant[1], "custom-domain")

-----------------------------------------------------------------------------
(* Plan entitlements: extractors.ts *)

\* TenantLimits
TenantLimits(products, orders, users, apiCalls, storage) ==
    [maxProducts |-> products, maxOrders |-> orders, maxUsers |-> users,
     maxApiCallsPerDay |-> apiCalls, maxStorageMb |-> storage]

DEFAULT_LIMITS == TenantLimits(50, 100, 2, 1000, 256)

\* A tenant context with its optional plan.
PlannedTenant(id, plan) ==
    [id |-> id, slug |-> "slug-" \o id, status |-> "ACTIVE", plan |-> plan]

\* TenantPlan
Plan(id, features, limits) ==
    [id |-> id, name |-> id, features |-> features, limits |-> limits]

\* tenant.plan?.limits ?? DEFAULT_LIMITS
getTenantLimits(tenant) ==
    IF tenant.plan # None THEN tenant.plan[1].limits ELSE DEFAULT_LIMITS

DEFAULT_RATE_LIMITS == [requestsPerMinute |-> 60, burstAllowance |-> 10]

MINUTES_PER_DAY == 1440

\* getRateLimitConfig with Math.min in place of Math.max.
getRateLimitConfigCapped(tenant) ==
    LET limits == getTenantLimits(tenant)
        derivedRpm == CeilDiv(limits.maxApiCallsPerDay * 2, MINUTES_PER_DAY)
    IN  [requestsPerMinute |->
             IF derivedRpm < DEFAULT_RATE_LIMITS.requestsPerMinute
             THEN derivedRpm ELSE DEFAULT_RATE_LIMITS.requestsPerMinute,
         burstAllowance |-> CeilDiv(derivedRpm, 5)]

\* getRateLimitConfig(tenant).  Math.ceil(q / 1440 * 2) is the least integer
\* not below 2q / 1440: the quotient q / 1440 * 2 is a whole number only for
\* q a multiple of 720, where q / 1440 is a multiple of one half and exact.
getRateLimitConfig(tenant) ==
    LET limits == getTenantLimits(tenant)
        derivedRpm == CeilDiv(limits.maxApiCallsPerDay * 2, MINUTES_PER_DAY)
    IN  [requestsPerMinute |->
             Max(derivedRpm, DEFAULT_RATE_LIMITS.requestsPerMinute),
         burstAllowance |-> CeilDiv(derivedRpm, 5)]

\* String(n) of a non-negative whole number, as a template literal prints it.
RECURSIVE NumberToString(_)
NumberToString(n) ==
    IF n < 10 THEN Digits[n + 1]
    ELSE NumberToString(n \div 10) \o Digits[(n % 10) + 1]

\* Number.POSITIVE_INFINITY, which no count reaches.
Infinity == "Infinity"

\* A QuotaCheckResult; message is None where the code leaves it undefined.
QuotaCheckResult(allowed, limit, current, remaining, message) ==
    [allowed |-> allowed, limit |-> limit, current |-> current,
     remaining |-> remaining, message |-> message]

\* The switch of checkQuota: the limit of a resource kind, None in the
\* default branch.
QuotaLimit(limits, resource) ==
    IF resource = "products" THEN Some(limits.maxProducts)
    ELSE IF resource = "orders" THEN Some(limits.maxOrders)
    ELSE IF resource = "users" THEN Some(limits.maxUsers)
    ELSE IF resource = "apiCalls" THEN Some(limits.maxApiCallsPerDay)
    ELSE IF resource = "storage" THEN Some(limits.maxStorageMb)
    ELSE None

\* checkQuota that counts what is left after the operation.
checkQuotaAfterIncrement(tenant, resource, currentCount, incrementBy) ==
    LET limits == getTenantLimits(tenant)
        limit == QuotaLimit(limits, resource)
        newCount == currentCount + Default(incrementBy, 1)
        allowed == newCount <= limit[1]
        remaining == Max(0, limit[1] - newCount)
    IN  IF limit = None
        THEN QuotaCheckResult(TRUE, Infinity, currentCount, Infinity, None)
        ELSE QuotaCheckResult(allowed, limit[1], currentCount, remaining, None)

\* checkQuota(tenant, resource, currentCount, incrementBy = 1)
checkQuota(tenant, resource, currentCount, incrementBy) ==
    LET limits == getTenantLimits(tenant)
        limit == QuotaLimit(limits, resource)
        newCount == currentCount + Default(incrementBy, 1)
        allowed == newCount <= limit[1]
        remaining == Max(0, limit[1] - currentCount)
        planName == IF tenant.plan # None THEN tenant.plan[1].name ELSE "free"
    IN  IF limit = None
        THEN QuotaCheckResult(TRUE, Infinity, currentCount, Infinity, None)
        ELSE QuotaCheckResult(allowed, limit[1], currentCount, remaining,
                 IF allowed THEN None
                 ELSE Some(resource \o " quota exceeded: "
                           \o NumberToString(currentCount) \o "/"
                           \o NumberToString(limit[1])
                           \o " (plan: " \o planName \o ")"))

MaxCount == 6

\* The five resource kinds, and one the switch does not know.
ResourceSet == {"products", "orders", "users", "apiCalls", "storage", "coupons"}

\* A tenant without a plan, and one whose plan has limits from 0 to 5.
QuotaTenantSet ==
    {PlannedTenant("a", None),
     PlannedTenant("a", Some(Plan("custom", <<>>, TenantLimits(3, 5, 0, 4, 1))))}

\* checkQuota(tenant, resource, currentCount[, incrementBy]) is called.
CallCheckQuota ==
    /\ \E t \in QuotaTenantSet, resource \in ResourceSet,
          currentCount \in 0..MaxCount,
          incrementBy \in {None, Some(0), Some(1), Some(2)} :
         /\ guardCall' = [op |-> "checkQuota", tenant |-> Some(t),
                          input |-> [resource |-> resource,
                                     currentCount |-> currentCount,
                                     incrementBy |-> incrementBy]]
         /\ guardResult' =
                Returned(Some(checkQuota(t, resource, currentCount, incrementBy)))
    /\ UNCHANGED besidesGuards

MaxQuotaSteps == 125

\* Daily quotas on both sides of every multiple of 360 calls.
QuotaSet == { 360 * k + r : k \in 0..MaxQuotaSteps, r \in {0, 1} }

PlannedTenantSet ==
    {PlannedTenant("a", None)}
        \cup { PlannedTenant("a", Some(Plan("custom", <<>>,
                   TenantLimits(50, 100, 2, q, 256)))) : q \in QuotaSet }

\* getRateLimitConfig(tenant) is called.
CallGetRateLimitConfig ==
    /\ \E t \in PlannedTenantSet :
         /\ guardCall' = [op |-> "getRateLimitConfig", tenant |-> Some(t),
                          input |-> Object("-", "-", "-")]
         /\ guardResult' = Returned(Some(getRateLimitConfig(t)))
    /\ UNCHANGED besidesGuards

-----------------------------------------------------------------------------
(* The specifications *)

\* The factory middleware before any request, with no tenant in the database.
MwIdle ==
    /\ mwOptions = [optional |-> None, cacheTtlMs |-> None, attachPrisma |-> None]
    /\ tenantCache = [k \in SlugSet \cup {""} |-> None]
    /\ cacheStoredAt = [k \in SlugSet \cup {""} |-> 0]
    /\ currentTenant = None
    /\ platformDb = [k \in SlugSet |-> None]
    /\ clock = Now
    /\ inflight = [i \in RequestIds |-> IdleSlot]

\* The Express middleware built by tenantMiddleware(options).
Init ==
    /\ options \in {o \in OptionSet : ~ConstructorThrows(o)}
    /\ ExprInit
    /\ mwOptions = [optional |-> None, cacheTtlMs |-> None, attachPrisma |-> None]
    /\ tenantCache = [k \in SlugSet \cup {""} |-> None]
    /\ cacheStoredAt = [k \in SlugSet \cup {""} |-> 0]
    /\ currentTenant = None
    /\ platformDb = [k \in SlugSet |-> None]
    /\ clock = Now
    /\ inflight = [i \in RequestIds |-> IdleSlot]
    /\ GuardInit
    /\ RlIdle
    /\ RsIdle

Next == Receive \/ Handle \/ Release

Spec == Init /\ [][Next]_vars

\* The middleware built by createTenantMiddleware(options), its cache and
\* the static tenant slot.
FactoryInit ==
    /\ options = Options(None, None, None, None, None, None)
    /\ ExprInit
    /\ MwInit
    /\ GuardInit
    /\ RlIdle
    /\ RsIdle

FactoryNext ==
    \/ \E i \in RequestIds : MwReceive(i)
    \/ \E i \in RequestIds : MwStart(i)
    \/ \E i \in RequestIds : MwLookup(i)
    \/ \E i \in RequestIds : MwConnect(i)
    \/ \E i \in RequestIds : MwRelease(i)
    \/ \E k \in SlugSet : invalidateTenantFromCache(k)
    \/ clearTenantMiddlewareCache
    \/ Tick

SpecFactory == FactoryInit /\ [][FactoryNext]_vars

\* The isolation guards, called with every tenant context and input.
GuardsInit ==
    /\ options = Options(None, None, None, None, None, None)
    /\ ExprInit
    /\ mwOptions = [optional |-> None, cacheTtlMs |-> None, attachPrisma |-> None]
    /\ tenantCache = [k \in SlugSet \cup {""} |-> None]
    /\ cacheStoredAt = [k \in SlugSet \cup {""} |-> 0]
    /\ currentTenant = None
    /\ platformDb = [k \in SlugSet |-> None]
    /\ clock = Now
    /\ inflight = [i \in RequestIds |-> IdleSlot]
    /\ GuardInit
    /\ RlIdle
    /\ RsIdle

GuardsNext ==
    \/ CallTenantWhere
    \/ CallTenantData
    \/ CallRequireTenant
    \/ CallRequireActiveTenant
    \/ CallValidateTenantOwnership
    \/ CallBelongsToTenant
    \/ CallFilterByTenant

SpecGuards == GuardsInit /\ [][GuardsNext]_vars

\* The rate limiter: concurrent checkRateLimit calls on one counter store.
RateLimitInit ==
    /\ options = Options(None, None, None, None, None, None)
    /\ ExprInit
    /\ MwIdle
    /\ GuardInit
    /\ RlInit
    /\ RsIdle

RateLimitNext ==
    \/ \E i \in RlSlots, key \in RlKeySet : RlStart(i, key)
    \/ \E i \in RlSlots : RlFinish(i)
    \/ RlTick

SpecRateLimit == RateLimitInit /\ [][RateLimitNext]_vars

\* The plan entitlement helpers, called with every tenant.
EntitlementsInit ==
    /\ options = Options(None, None, None, None, None, None)
    /\ ExprInit
    /\ MwIdle
    /\ GuardInit
    /\ RlIdle
    /\ RsIdle

EntitlementsNext == CallGetRateLimitConfig \/ CallCheckQuota

SpecEntitlements == EntitlementsInit /\ [][EntitlementsNext]_vars

\* The tenant resolver: lookups, invalidations and changes of the tenant
\* table.
ResolverInit ==
    /\ options = Options(None, None, None, None, None, None)
    /\ ExprInit
    /\ MwIdle
    /\ GuardInit
    /\ RlIdle
    /\ RsInit

ResolverNext ==
    \/ \E i \in RsSlots, l \in RsLookupSet, bypassCache \in BOOLEAN :
          RsCall(i, l[1], l[2], bypassCache)
    \/ \E i \in RsSlots : RsQuery(i)
    \/ \E i \in RsSlots : RsReturn(i)
    \/ \E i \in RsSlots : RsRelease(i)
    \/ \E key \in {None, Some("")} \cup {Some(k) : k \in RsCacheKeys} :
          RsClear(key)
    \/ \E slug \in {RsSlug, "ghost"},
          customDomain \in {None, Some(""), Some(RsDomain)} :
          RsInvalidate(slug, customDomain)
    \/ \E row \in {None} \cup {Some(RsRow(st)) : st \in RsStatuses} :
          RsChange(row)
    \/ RsTick

SpecResolver == ResolverInit /\ [][ResolverNext]_vars

\* Hostname routing: the two pure functions in front of the lookups.
HostnameInit ==
    /\ options = Options(None, None, None, None, None, None)
    /\ ExprInit
    /\ MwIdle
    /\ GuardInit
    /\ RlIdle
    /\ RsIdle

HostnameNext == CallExtractSubdomain \/ CallParseSubdomain

SpecHostname == HostnameInit /\ [][HostnameNext]_vars

\* Two requests handled at once by the factory's middleware, each naming
\* a tenant of its own in X-Tenant-Slug.
ConcurrentIds == {1, 2}

TwoTenantsDb ==
    [k \in SlugSet |->
        IF k = "acme" THEN Some(Row("t-acme", "acme", "ACTIVE", Some("growth"),
                                    {"AI_SEARCH"}))
        ELSE IF k = "beta" THEN Some(Row("t-beta", "beta", "ACTIVE", None, {}))
        ELSE None]

ConcurrentInit ==
    /\ options = Options(None, None, None, None, None, None)
    /\ ExprInit
    /\ mwOptions \in { [optional |-> None, cacheTtlMs |-> None, attachPrisma |-> att] :
                          att \in {None, Some(FALSE)} }
    /\ tenantCache = [k \in SlugSet \cup {""} |-> None]
    /\ cacheStoredAt = [k \in SlugSet \cup {""} |-> 0]
    /\ currentTenant = None
    /\ platformDb = TwoTenantsDb
    /\ clock = Now
    /\ inflight = [i \in ConcurrentIds |-> IdleSlot]
    /\ GuardInit
    /\ RlIdle
    /\ RsIdle

\* A request naming a tenant arrives.
MwReceiveSlug(i) ==
    /\ inflight[i].pc = "idle"
    /\ \E k \in {"acme", "beta"} :
           Slot(i, [IdleSlot EXCEPT !.pc = "received",
                                    !.request = MwRequest(None, Some(k))])
    /\ UNCHANGED <<mwOptions, tenantCache, cacheStoredAt, currentTenant,
                   platformDb, clock>>
    /\ UNCHANGED besidesMw

ConcurrentNext ==
    \/ \E i \in ConcurrentIds : MwReceiveSlug(i)
    \/ \E i \in ConcurrentIds : MwStart(i)
    \/ \E i \in ConcurrentIds : MwLookup(i)
    \/ \E i \in ConcurrentIds : MwConnect(i)
    \/ \E i \in ConcurrentIds : MwRelease(i)

SpecConcurrent == ConcurrentInit /\ [][ConcurrentNext]_vars

-----------------------------------------------------------------------------
(* What the claims speak of *)

\* The trust mode in force.
TrustMode == Default(options.headerTrustMode, "jwt-only")

\* The Express middleware has handled req and did not skip its path.
Handled == pc = "done" /\ ~shouldSkipPath(req.path, Default(options.skipPaths, <<>>))

\* The token req carries, None if it carries none.
CarriedToken == extractToken(req)

\* req carries a token that verifies and contains a tenant claim.
TokenNamesTenant ==
    /\ CarriedToken # None
    /\ CarriedToken[1].verifies
    /\ Truthy(CarriedToken[1].claims.sub)
    /\ Truthy(CarriedToken[1].claims.siteId)

\* resolveTenant returned a tenant built from the request headers.
ResolvedFromHeaders == resolution.kind = "tenant" /\ resolution.via = "header"

\* An IPv4 address in dotted notation, as its four octets.
IsOctet(str) ==
    /\ Len(str) \in 1..3
    /\ DigitPrefixLen(str) = Len(str)
    /\ DecimalValue(str) <= 255

IsV4(ip) ==
    LET pieces == Split(ip, ".")
    IN  Len(pieces) = 4 /\ \A i \in 1..4 : IsOctet(pieces[i])

V4Groups(ip) == [i \in 1..4 |-> DecimalValue(Split(ip, ".")[i])]

\* The IPv6 addresses of the model, as their eight 16-bit groups.
V6Groups ==
    ("::1" :> <<0, 0, 0, 0, 0, 0, 0, 1>>)
    @@ ("fd00::1" :> <<64768, 0, 0, 0, 0, 0, 0, 1>>)
    @@ ("fc00::" :> <<64512, 0, 0, 0, 0, 0, 0, 0>>)
    @@ ("2001:db8::1" :> <<8193, 3512, 0, 0, 0, 0, 0, 1>>)

\* An address as [bits of a group, groups]; an IPv4-mapped IPv6 address is
\* the IPv4 address it maps.  None for a string that is no address.
Address(ip) ==
    IF IsV4(ip) THEN Some([width |-> 8, groups |-> V4Groups(ip)])
    ELSE IF StartsWith(ip, "::ffff:") /\ IsV4(SubSeq(ip, 8, Len(ip)))
         THEN Some([width |-> 8, groups |-> V4Groups(SubSeq(ip, 8, Len(ip)))])
    ELSE IF ip \in DOMAIN V6Groups THEN Some([width |-> 16, groups |-> V6Groups[ip]])
    ELSE None

RECURSIVE Pow2(_)
Pow2(n) == IF n = 0 THEN 1 ELSE 2 * Pow2(n - 1)

\* ip lies inside the CIDR range: same family, same leading bits.
InRange(ip, cidr) ==
    LET parts == Split(cidr, "/")
        base == Address(parts[1])
        bits == DecimalValue(parts[2])
        addr == Address(ip)
        Kept(i, w) == IF bits >= w * i THEN w
                      ELSE IF bits <= w * (i - 1) THEN 0
                      ELSE bits - w * (i - 1)
    IN  /\ addr # None
        /\ base # None
        /\ addr[1].width = base[1].width
        /\ \A i \in 1..Len(addr[1].groups) :
              LET w == addr[1].width
                  drop == Pow2(w - Kept(i, w))
              IN  addr[1].groups[i] \div drop = base[1].groups[i] \div drop

InAnyRange(ip, networks) == \E i \in 1..Len(networks) : InRange(ip, networks[i])

\* The trusted ranges in force.
TrustedNetworks == Default(options.trustedNetworks, DEFAULT_TRUSTED_NETWORKS)

\* The tuple the request's headers carry, and the tuples a signature may have
\* been computed over.
CarriedTuple ==
    <<req.headers["x-tenant-id"], req.headers["x-tenant-slug"],
      req.headers["x-tenant-signature-ts"]>>

SignedTupleSet ==
    {Some("a"), Some("b"), Some("a:b")}
    \X {Some("c"), Some("b:c")}
    \X {Some("abc"), Some("699999"), Some("700000"), Some("1000000"),
        Some("1300000"), Some("1000000x")}

\* The signature header is the gateway's signature over tuple t.
SignedOver(t) ==
    req.headers["x-tenant-signature"] = Some(GatewaySignature(t[1], t[2], t[3][1]))

\* A string that is a decimal number.
IsNumeric(str) == Len(str) > 0 /\ DigitPrefixLen(str) = Len(str)

-----------------------------------------------------------------------------
(* The claims *)

\* C1: token precedence.  When the request carries a token that verifies and
\* contains a tenant claim, resolveTenant never falls through to the headers
\* or to "no tenant", and a tenant it returns has the token's identifier, in
\* every trust mode and with every header; and createTenantMiddleware works
\* with the slug of such a token, not with the x-tenant-slug header.
C1_TokenPrecedence ==
    /\ (Handled /\ TokenNamesTenant) =>
          /\ resolution.via = "jwt"
          /\ resolution.kind = "tenant" =>
                resolution.tenant[1].id = CarriedToken[1].claims.siteId[1]
    /\ \A i \in RequestIds :
          LET me == inflight[i]
              token == me.request.bearerToken
          IN  ( /\ me.pc \in {"lookup", "connect"}
                /\ token # None
                /\ token[1].verifies
                /\ Truthy(token[1].payload.tenantSlug)
                /\ Truthy(token[1].payload.tenantId) )
              => me.tenantSlug = token[1].payload.tenantSlug

\* C1 holds of every middleware that was given the jwt option: the only
\* requests that break it are handled by a middleware built without it.
C1_TokenPrecedenceWithJwtOption == options.jwt # None => C1_TokenPrecedence

\* C2: scoping overwrites caller input.  For every tenant context A and every
\* filter or payload, tenantWhere(A, filter) and tenantData(A, payload) have
\* siteId = A.id and every other field of the input unchanged.
C2_ScopingOverwrites ==
    (guardCall.op \in {"tenantWhere", "tenantData"} /\ guardCall.tenant # None) =>
        /\ guardResult.ok
        /\ DOMAIN guardResult.value = DOMAIN guardCall.input \cup {"siteId"}
        /\ guardResult.value.siteId = guardCall.tenant[1].id
        /\ \A k \in DOMAIN guardCall.input \ {"siteId"} :
              guardResult.value[k] = guardCall.input[k]

\* C3: tenant headers are never trusted without validation.  resolveTenant
\* returns a tenant built from headers only under 'signed' with the gateway's
\* signature over the carried tuple, or under 'internal-network' for a caller
\* in a trusted range; and createTenantMiddleware establishes a tenant context
\* (req.tenantInfo, TenantContext) only for a request whose token names the
\* tenant, never for one whose only tenant signal is x-tenant-slug.
C3_HeadersNeverTrustedUnvalidated ==
    /\ (Handled /\ ResolvedFromHeaders) =>
          \/ TrustMode = "signed" /\ SignedOver(CarriedTuple)
          \/ TrustMode = "internal-network" /\ InAnyRange(req.ip, TrustedNetworks)
    /\ \A i \in RequestIds :
          inflight[i].tenantInfo # None =>
              /\ inflight[i].request.bearerToken # None
              /\ extractTenantFromJwt(inflight[i].request.bearerToken[1]) # None

\* C4: under 'internal-network', a request that carries no token and whose
\* caller address lies outside every trusted range resolves no tenant,
\* whatever its headers (x-forwarded-for included); with required = true the
\* middleware answers TenantMissingError and does not call next().
C4_ExternalCallerResolvesNothing ==
    ( /\ Handled
      /\ TrustMode = "internal-network"
      /\ CarriedToken = None
      /\ ~InAnyRange(req.ip, TrustedNetworks) )
    => /\ resolution.kind = "none"
       /\ Required(options) =>
             /\ response = Response(400, "TENANT_MISSING")
             /\ nextCalls = 0

\* C5: the network classifier decides against the configured ranges.  For the
\* address the middleware classifies and the trusted ranges in force (the
\* defaults when none is configured), isInternalNetwork is true iff the
\* address lies inside at least one of the ranges.
C5_ClassifierMatchesRanges ==
    ( /\ Handled
      /\ TrustMode = "internal-network"
      /\ Address(getClientIp(req)) # None )
    => ( isInternalNetwork(getClientIp(req), TrustedNetworks)
         <=> InAnyRange(getClientIp(req), TrustedNetworks) )

\* C6: under 'signed', a request whose signature the gateway computed over a
\* tuple (tenantId, tenantSlug, timestamp) other than the tuple its headers
\* carry is rejected, also when a field contains ':'.
C6_SignatureBindsTuple ==
    ( /\ Handled
      /\ TrustMode = "signed"
      /\ CarriedToken = None )
    => \A t \in SignedTupleSet :
          (SignedOver(t) /\ t # CarriedTuple) => resolution.kind = "none"

\* C7: under 'signed', a request whose timestamp is more than 300000 ms older
\* than now, or is missing or not a number, or whose signature is missing, is
\* rejected, whatever its signature; it resolves no tenant from headers.
C7_StaleOrMalformedRejected ==
    LET signature == req.headers["x-tenant-signature"]
        timestamp == req.headers["x-tenant-signature-ts"]
    IN  ( /\ Handled
          /\ TrustMode = "signed"
          /\ CarriedToken = None
          /\ \/ ~Truthy(signature)
             \/ ~Truthy(timestamp)
             \/ ~IsNumeric(timestamp[1])
             \/ req.now - DecimalValue(timestamp[1]) > 300000 )
        => resolution.kind = "none"

\* The part of C7 that holds: a timestamp that is a number more than 300000 ms
\* older than now is rejected, and so are a missing timestamp, a timestamp
\* without a leading digit and a missing signature.
C7_NumericStaleRejected ==
    LET signature == req.headers["x-tenant-signature"]
        timestamp == req.headers["x-tenant-signature-ts"]
    IN  ( /\ Handled
          /\ TrustMode = "signed"
          /\ CarriedToken = None
          /\ \/ ~Truthy(signature)
             \/ ~Truthy(timestamp)
             \/ DigitPrefixLen(timestamp[1]) = 0
             \/ /\ IsNumeric(timestamp[1])
                /\ req.now - DecimalValue(timestamp[1]) > 300000 )
        => resolution.kind = "none"

C9_StatusValidated ==
    LET tenant == resolution.tenant[1]
        allowSuspended == Default(options.allowSuspended, FALSE)
        allowMaintenance == Default(options.allowMaintenance, FALSE)
        Rejected(statusCode, code) ==
            /\ response = Response(statusCode, code)
            /\ reqTenant = None
            /\ reqTenantId = None
            /\ nextCalls = 0
        Attached ==
            /\ response = None
            /\ reqTenant = Some(tenant)
            /\ reqTenantId = Some(tenant.id)
            /\ nextCalls = 1
    IN  (Handled /\ resolution.kind = "tenant") =>
            /\ tenant.status = "ARCHIVED" => Rejected(410, "TENANT_ARCHIVED")
            /\ tenant.status = "SUSPENDED" =>
                  IF allowSuspended THEN Attached
                  ELSE Rejected(403, "TENANT_SUSPENDED")
            /\ tenant.status = "MAINTENANCE" =>
                  IF allowMaintenance THEN Attached
                  ELSE Rejected(503, "TENANT_MAINTENANCE")
            /\ tenant.status \in {"ACTIVE", "TRIAL"} => Attached
            /\ (response # None) => (reqTenant = None /\ reqTenantId = None)

\* C9's case: an ARCHIVED tenant is resolved by a middleware that allows both
\* suspended tenants and tenants under maintenance, and is rejected.
C9_Witness ==
    /\ Handled
    /\ resolution.kind = "tenant"
    /\ resolution.tenant[1].status = "ARCHIVED"
    /\ options.allowSuspended = Some(TRUE)
    /\ options.allowMaintenance = Some(TRUE)
    /\ response = Response(410, "TENANT_ARCHIVED")
    /\ reqTenant = None

\* C10: when no tenant is resolved and nothing was thrown, the middleware
\* answers TenantMissingError (400 TENANT_MISSING) without calling next() if
\* required is true or left out, and calls next() with req.tenant and
\* req.tenantId unset if required is false.
C10_MissingTenant ==
    (Handled /\ resolution.kind = "none") =>
        /\ reqTenant = None
        /\ reqTenantId = None
        /\ IF options.required \in {None, Some(TRUE)}
           THEN response = Response(400, "TENANT_MISSING") /\ nextCalls = 0
           ELSE response = None /\ nextCalls = 1

\* C10's case: the required option is left out, the request resolves no
\* tenant, and the middleware answers TenantMissingError.
C10_Witness ==
    /\ Handled
    /\ options.required = None
    /\ resolution.kind = "none"
    /\ response = Response(400, "TENANT_MISSING")
    /\ nextCalls = 0

\* The ceiling of the rate limiter: limitPerMinute + burstAllowance.
Ceiling == rlConfig.requestsPerMinute + rlConfig.burstAllowance

\* The counts a call read, as numbers.
ReadCurrent(call) == IF call.currentCount = None THEN 0
                     ELSE DecimalValue(call.currentCount[1])

ReadPrevious(call) == IF call.previousCount = None THEN 0
                      ELSE DecimalValue(call.previousCount[1])

\* count(W) + count(W-1) * (1 - elapsed/60000) < ceiling, times 60000.
UnderCeiling(current, previous, elapsed) ==
    current * 60000 + previous * (60000 - elapsed) < Ceiling * 60000

\* C11: sliding-window admission within one window.  Of the requests made
\* for one key one after another inside a single window whose previous
\* window has no count, the k-th is allowed iff k <= limitPerMinute +
\* burstAllowance: request number ceiling + 1 is denied and so is every
\* later one.
C11_AdmissionWithinOneWindow ==
    (rlLast # None /\ rlLast[1].clean) =>
        (rlLast[1].allowed <=> rlLast[1].nth <= Ceiling)

\* C11's case: the request after the last admitted one, in the same window,
\* is denied.
C11_Witness ==
    /\ rlLast # None
    /\ rlLast[1].clean
    /\ rlLast[1].nth = Ceiling + 1
    /\ ~rlLast[1].allowed

\* C12: boundary-burst weighting.  A request arriving elapsed ms into window
\* W is allowed iff count(W) + count(W-1) * (1 - elapsed/60000) < ceiling.
\* Stated of a call during which no counter it read was changed, and for W
\* and elapsed taken either at the instant the call was made or at the
\* instant it decided.
C12_WeightedByElapsed ==
    (rlLast # None /\ rlLast[1].undisturbed) =>
        LET call == rlLast[1]
        IN  \/ call.allowed <=> UnderCeiling(ReadCurrent(call), ReadPrevious(call),
                                             call.startedAt % 60000)
            \/ call.allowed <=> UnderCeiling(call.countNow, call.countBefore,
                                             call.decidedAt % 60000)

\* The part of C12 that holds: the statement for the calls that decide in the
\* window they were made in.
C12_WeightedWithinOneWindow ==
    ( /\ rlLast # None
      /\ rlLast[1].undisturbed
      /\ rlLast[1].decidedAt \div 60000 = rlLast[1].currentWindow ) =>
        (rlLast[1].allowed <=>
            UnderCeiling(rlLast[1].countNow, rlLast[1].countBefore,
                         rlLast[1].decidedAt % 60000))

\* C13: rejected requests are free.  A call that returns "denied" changes no
\* counter and no expiry of any key; a call that returns "allowed" adds
\* exactly 1 to the counter of its key and window and changes no other
\* counter.
C13_RejectedRequestsAreFree ==
    [][ \A i \in RlSlots :
          (rlCalls[i].pc = "reading" /\ rlCalls'[i].pc = "idle") =>
              LET k == getWindowKey(rlCalls[i].key, rlCalls[i].currentWindow)
              IN  IF rlLast'[1].allowed
                  THEN /\ DOMAIN rlStore' = DOMAIN rlStore \cup {k}
                       /\ rlStore'[k].count =
                            CountOf(rlStore, rlCalls[i].key,
                                    rlCalls[i].currentWindow) + 1
                       /\ \A x \in DOMAIN rlStore \ {k} : rlStore'[x] = rlStore[x]
                  ELSE rlStore' = rlStore ]_vars

\* C13's case: a request was denied while the key's counter stands at the
\* ceiling and the other client's counter is as it was.
C13_Witness ==
    /\ rlLast # None
    /\ ~rlLast[1].allowed
    /\ CountOf(rlStore, rlLast[1].key, rlLast[1].currentWindow) = Ceiling
    /\ CountOf(rlStore, OtherRlKey, getCurrentWindow(RlEpoch)) = 1

\* C14: every allowed request (re)sets the expiry of its counter to 120 s, so
\* a counter of window W-1 stays in the store until window W has ended: every
\* stored counter of a window w expires no earlier than the end of window
\* w + 1, and the counter the last allowed call incremented is present, with
\* an expiry at least 120 s after that call, until then.
C14_PreviousCounterOutlivesWindow ==
    /\ \A key \in RlKeySet, w \in 99..103 :
          getWindowKey(key, w) \in DOMAIN rlStore =>
              rlStore[getWindowKey(key, w)].expireAt >= (w + 2) * 60000
    /\ (rlLast # None /\ rlLast[1].allowed
         /\ rlNow < rlLast[1].decidedAt + 120 * 1000) =>
          LET k == getWindowKey(rlLast[1].key, rlLast[1].currentWindow)
          IN  /\ k \in DOMAIN rlStore
              /\ rlStore[k].count >= 1
              /\ rlStore[k].expireAt >= rlLast[1].decidedAt + 120 * 1000

\* C14's case: at the last instant of window W the counter of window W-1,
\* incremented twice during W-1, is still in the store.
C14_Witness ==
    /\ rlLast # None
    /\ rlLast[1].allowed
    /\ rlLast[1].nth = 2
    /\ rlLast[1].decidedAt > RlEpoch
    /\ getCurrentWindow(rlNow) = rlLast[1].currentWindow + 1
    /\ rlNow % 60000 = 30000
    /\ CountOf(rlStore, rlLast[1].key, rlLast[1].currentWindow) = 2

EffectiveQuota ==
    IF guardCall.tenant[1].plan # None
    THEN guardCall.tenant[1].plan[1].limits.maxApiCallsPerDay
    ELSE DEFAULT_LIMITS.maxApiCallsPerDay

\* d is ceil(q / 1440 * 2): the least integer with d * 1440 >= 2 * q.
IsDerivedRpm(d, q) == d * 1440 >= 2 * q /\ (d - 1) * 1440 < 2 * q

MwChecksCache(i) ==
    /\ inflight[i].pc = "received"
    /\ inflight'[i].pc # "received"
    /\ Truthy(ChosenSlug(inflight[i].request))

\* The TTL the factory's middleware was built with.
CacheTtl == Default(mwOptions.cacheTtlMs, DEFAULT_CACHE_TTL_MS)

\* C17: after a successful lookup of a key, every further lookup of that key
\* made less than TTL (60 s) after the entry was stored makes no repository
\* call and returns the cached value; a lookup made once TTL has elapsed
\* goes to the repository, once.
C17_CacheHitAndExpiry ==
    [][\A i \in RequestIds :
         LET k == ChosenSlug(inflight[i].request)[1]
         IN  (MwChecksCache(i) /\ tenantCache[k] # None) =>
                 IF clock - cacheStoredAt[k] < CacheTtl
                 THEN /\ inflight'[i].pc # "lookup"
                      /\ inflight'[i].tenantInfo = Some(tenantCache[k][1].info)
                 ELSE /\ inflight'[i].pc = "lookup"
                      /\ inflight'[i].tenantInfo = None]_vars

\* The same with the TTL counted from the timestamp the entry carries: the
\* instant at which the lookup that stored it began.
C17_HitWithinTtlOfTimestamp ==
    [][\A i \in RequestIds :
         LET k == ChosenSlug(inflight[i].request)[1]
         IN  (MwChecksCache(i) /\ tenantCache[k] # None) =>
                 IF clock - tenantCache[k][1].timestamp < CacheTtl
                 THEN /\ inflight'[i].pc # "lookup"
                      /\ inflight'[i].tenantInfo = Some(tenantCache[k][1].info)
                 ELSE /\ inflight'[i].pc = "lookup"
                      /\ inflight'[i].tenantInfo = None]_vars

\* Lookup i resumes after its await and returns in this step.
RsReturns(i) == rsCalls[i].pc = "answered" /\ rsCalls'[i].pc = "returned"

\* C18: a lookup for which the repository returns none (or fails) leaves
\* the cache unchanged, so that the next lookup of that key calls the
\* repository again (stated here for the answer none); a lookup with
\* bypassCache = true calls the repository exactly once even when a fresh
\* entry exists, and stores the result when it is found.
C18_NegativeNotCachedBypassReloads ==
    [][\A i \in RsSlots :
         LET me == rsCalls[i]
             after == rsCalls'[i]
             cacheKey == CacheKey(me.fn, me.arg)
         IN  /\ (RsReturns(i) /\ after.result = None) => rsCache' = rsCache
             /\ (RsReturns(i) /\ after.result = None /\ ~me.failed) =>
                    ~Fresh(rsCache'[cacheKey], rsNow')
             /\ (me.pc = "idle" /\ after.pc # "idle" /\ after.bypassCache) =>
                    after.pc = "query" /\ after.repoCalls = 1
             /\ (RsReturns(i) /\ me.bypassCache) => after.repoCalls = 1
             /\ (RsReturns(i) /\ me.bypassCache /\ after.result # None) =>
                    rsCache'[cacheKey] = Some([tenant |-> after.result[1],
                                               timestamp |-> rsNow'])]_vars

\* What remains of C18 when the consequence drawn for the next lookup is
\* left out.
C18_NegativeLeavesCacheAlone ==
    [][\A i \in RsSlots :
         LET me == rsCalls[i]
             after == rsCalls'[i]
             cacheKey == CacheKey(me.fn, me.arg)
         IN  /\ (RsReturns(i) /\ after.result = None) => rsCache' = rsCache
             /\ (me.pc = "idle" /\ after.pc # "idle" /\ after.bypassCache) =>
                    after.pc = "query" /\ after.repoCalls = 1
             /\ (RsReturns(i) /\ me.bypassCache) => after.repoCalls = 1
             /\ (RsReturns(i) /\ me.bypassCache /\ after.result # None) =>
                    rsCache'[cacheKey] = Some([tenant |-> after.result[1],
                                               timestamp |-> rsNow'])]_vars

\* The keys clearTenantCache is called with, and the arguments of
\* invalidateTenantCache.
ClearKeySet == {Some("")} \cup {Some(k) : k \in RsCacheKeys}

InvalidateSlugSet == {RsSlug, "ghost"}

InvalidateDomainSet == {None, Some(""), Some(RsDomain)}

\* The key is not in the cache.
Absent(cache, key) == key \notin DOMAIN cache \/ cache[key] = None

\* C19: an invalidation called on an absent key leaves the cache unchanged,
\* called twice in a row it leaves the cache as calling it once does, and a
\* keyed invalidation leaves every entry of other keys untouched.
C19_InvalidationIdempotent ==
    [][/\ \A key \in ClearKeySet :
            RsClear(key) =>
                /\ \A k \in DOMAIN rsCache \ {key[1]} : rsCache'[k] = rsCache[k]
                /\ Absent(rsCache, key[1]) => rsCache' = rsCache
                /\ clearTenantCache(rsCache', key) = rsCache'
       /\ RsClear(None) => clearTenantCache(rsCache', None) = rsCache'
       /\ \A slug \in InvalidateSlugSet, customDomain \in InvalidateDomainSet :
            RsInvalidate(slug, customDomain) =>
                LET keys == {"slug:" \o slug} \cup
                            (IF customDomain = None THEN {}
                             ELSE {"domain:" \o customDomain[1]})
                IN  /\ \A k \in DOMAIN rsCache \ keys : rsCache'[k] = rsCache[k]
                    /\ (\A k \in keys : Absent(rsCache, k)) => rsCache' = rsCache
                    /\ invalidateTenantCache(rsCache', slug, customDomain)
                           = rsCache']_vars

\* The same of the calls whose key is not the empty string.
C19_NamedKeyInvalidation ==
    [][/\ \A key \in ClearKeySet \ {Some("")} :
            RsClear(key) =>
                /\ \A k \in DOMAIN rsCache \ {key[1]} : rsCache'[k] = rsCache[k]
                /\ Absent(rsCache, key[1]) => rsCache' = rsCache
                /\ clearTenantCache(rsCache', key) = rsCache'
       /\ \A slug \in InvalidateSlugSet, customDomain \in InvalidateDomainSet :
            RsInvalidate(slug, customDomain) =>
                LET keys == {"slug:" \o slug} \cup
                            (IF customDomain = None THEN {}
                             ELSE {"domain:" \o customDomain[1]})
                IN  /\ \A k \in DOMAIN rsCache \ keys : rsCache'[k] = rsCache[k]
                    /\ (\A k \in keys : Absent(rsCache, k)) => rsCache' = rsCache
                    /\ invalidateTenantCache(rsCache', slug, customDomain)
                           = rsCache']_vars

\* C20: once the tenant's status has changed at time t, no lookup starting
\* at or after t + TTL returns the old status from the cache.
C20_StalenessBoundedByTtl ==
    \A i \in RsSlots :
        LET me == rsCalls[i]
        IN  (/\ me.pc = "returned"
             /\ me.fromCache
             /\ me.startedAt >= rsChangedAt + CACHE_TTL_MS
             /\ rsTable[RsSlug] # None) =>
                me.result[1].status = rsTable[RsSlug][1].status

\* What resolveTenantFromHostname answers when its lookup is call i.
HostnameAnswer(i) ==
    IF rsCalls[i].fn = "slug"
    THEN FromSubdomain(rsCalls[i].arg, rsCalls[i].result)
    ELSE FromCustomDomain(rsCalls[i].result)

\* What it answers for a tenant the repository does not have.
NotFoundAnswer(i) ==
    IF rsCalls[i].fn = "slug" THEN FromSubdomain(rsCalls[i].arg, None)
    ELSE FromCustomDomain(None)

\* C21: a repository failure during resolveTenantBySlug,
\* resolveTenantByCustomDomain or resolveTenantFromHostname surfaces as an
\* outcome of its own and is never reported as 'tenant not found'.
C21_FailureIsNotNotFound ==
    \A i \in RsSlots :
        (rsCalls[i].pc = "returned" /\ rsCalls[i].failed) =>
            /\ rsCalls[i].result # None
            /\ HostnameAnswer(i) # NotFoundAnswer(i)

\* The factory's middleware calls next() for request i in this step, with a
\* tenant: the handlers behind it start to run.
MwHandsOver(i) ==
    /\ inflight'[i].nextCalls > inflight[i].nextCalls
    /\ inflight'[i].tenantInfo # None

\* C22: for any interleaving of two requests that resolve different tenants
\* through createTenantMiddleware, TenantContext.get(), hasAddon() and
\* hasPlanAtLeast() evaluated when a request is handed to its handlers
\* observe that request's own tenant.
C22_ContextIsPerRequest ==
    [][\A i \in ConcurrentIds :
         MwHandsOver(i) =>
             /\ currentTenant' = inflight'[i].tenantInfo
             /\ \A addon \in {"AI_SEARCH"} :
                    hasAddon(currentTenant', addon)
                        = hasAddon(inflight'[i].tenantInfo, addon)
             /\ \A minPlan \in {"GROWTH"} :
                    hasPlanAtLeast(currentTenant', minPlan)
                        = hasPlanAtLeast(inflight'[i].tenantInfo, minPlan)]_vars

\* C23: requireActiveTenant fails with TenantMissingError when the context is
\* absent, with TenantSuspendedError when it is SUSPENDED, with
\* TenantArchivedError when it is ARCHIVED, and returns the very same tenant
\* for every other status; requireTenant fails, with TenantMissingError,
\* exactly when the context is absent, and otherwise returns the tenant.
C23_ActiveTenantGuard ==
    LET t == guardCall.tenant
    IN  /\ guardCall.op = "requireActiveTenant" =>
              guardResult =
                  IF t = None THEN Thrown(TenantMissingError)
                  ELSE IF t[1].status = "SUSPENDED"
                  THEN Thrown(TenantSuspendedError)
                  ELSE IF t[1].status = "ARCHIVED"
                  THEN Thrown(TenantArchivedError)
                  ELSE Returned(t[1])
        /\ guardCall.op = "requireTenant" =>
              /\ ~guardResult.ok <=> t = None
              /\ ~guardResult.ok => guardResult.error = TenantMissingError
              /\ guardResult.ok => guardResult.value = t[1]

C23_Witness ==
    /\ guardCall.op = "requireActiveTenant"
    /\ guardCall.tenant # None
    /\ guardCall.tenant[1].status = "ARCHIVED"
    /\ guardResult = Thrown(TenantArchivedError)

\* Two validateTenantOwnership calls in a row.
OwnershipCall(call) == call.op = "validateTenantOwnership"

\* The call names a record of another tenant.
Mismatching(call) ==
    /\ call.tenant # None
    /\ Truthy(call.input)
    /\ call.input[1] # call.tenant[1].id

\* C24: validateTenantOwnership(ctx, recordSiteId) fails, with
\* TenantMissingError, exactly when ctx is absent, recordSiteId is null,
\* undefined or empty, or recordSiteId differs from ctx.id; and any two
\* mismatching calls, whatever their recordSiteId and ctx.id, fail with the
\* same error, message and details included.
C24_OwnershipValidation ==
    [][OwnershipCall(guardCall') =>
         /\ ~guardResult'.ok <=>
                \/ guardCall'.tenant = None
                \/ ~Truthy(guardCall'.input)
                \/ guardCall'.input[1] # guardCall'.tenant[1].id
         /\ ~guardResult'.ok =>
                /\ guardResult'.error.name = "TenantMissingError"
                /\ guardResult'.error.code = "TENANT_MISSING"
         /\ (/\ OwnershipCall(guardCall)
             /\ Mismatching(guardCall)
             /\ Mismatching(guardCall')) =>
                guardResult'.error = guardResult.error]_vars

C24_Witness ==
    /\ OwnershipCall(guardCall)
    /\ Mismatching(guardCall)
    /\ guardCall.input = Some("c")
    /\ ~guardResult.ok

\* C25: belongsToTenant never throws and is true exactly when
\* validateTenantOwnership returns without error; with a tenant context,
\* filterByTenant(ctx, records) returns, in their order, exactly the records
\* r with belongsToTenant(ctx, r.siteId).
C25_BelongsAndFilter ==
    /\ guardCall.op = "belongsToTenant" =>
          /\ guardResult.ok
          /\ guardResult.value[1]
                 <=> validateTenantOwnership(guardCall.tenant,
                                             guardCall.input).ok
    /\ (guardCall.op = "filterByTenant" /\ guardCall.tenant # None) =>
          /\ guardResult.ok
          /\ LET records == guardCall.input
                 kept == { n \in 1..Len(records) :
                             belongsToTenant(guardCall.tenant,
                                             records[n].siteId) }
                 out == guardResult.value
             IN  /\ Len(out) = Cardinality(kept)
                 /\ \A m \in 1..Len(out) :
                        \E n \in kept :
                            /\ out[m] = records[n]
                            /\ Cardinality({k \in kept : k < n}) = m - 1

C25_Witness ==
    /\ guardCall.op = "filterByTenant"
    /\ guardCall.tenant # None
    /\ Len(guardCall.input) = 2
    /\ Len(guardResult.value) = 1
    /\ guardResult.value[1] = guardCall.input[2]

\* C26: the token path is attempted for every request that carries a token,
\* in every trust mode and for every middleware configuration, before any
\* tenant header is considered: a request whose token verifies and contains
\* a tenant claim is resolved by the token step, to the token's tenant.
C26_TokenPathAlwaysAttempted ==
    (Handled /\ TokenNamesTenant) =>
        /\ resolution.kind = "tenant"
        /\ resolution.via = "jwt"
        /\ resolution.tenant
               = Some(resolveTenantFromJwt(CarriedToken[1].claims).value)

\* req carries a token that jose rejects.
TokenFailsVerification == CarriedToken # None /\ ~CarriedToken[1].verifies

\* C27: a token whose verification fails does not abort resolution: the
\* header step decides, by the trust mode, as it does for a request without
\* a token; and when it trusts no header the outcome is 'no tenant' (next()
\* without tenant when optional, TENANT_MISSING when required), never
\* another error.
C27_FailedTokenFallsThrough ==
    (Handled /\ TokenFailsVerification) =>
        /\ resolution.via # "jwt"
        /\ response # Response(500, "TENANT_RESOLUTION_ERROR")
        /\ resolution.kind = "none" =>
              IF Required(options)
              THEN /\ response = Response(TenantMissingError.statusCode,
                                          TenantMissingError.code)
                   /\ nextCalls = 0
              ELSE /\ response = None
                   /\ nextCalls = 1
                   /\ reqTenant = None

\* C27 as far as the code keeps it: a middleware without the jwt option
\* never verifies the token, and the headers decide.
C27_FallsThroughWithoutJwtOption ==
    options.jwt = None => C27_FailedTokenFallsThrough

\* req carries a token that verifies and has no subject claim.
TokenLacksSubject ==
    /\ CarriedToken # None
    /\ CarriedToken[1].verifies
    /\ ~Truthy(CarriedToken[1].claims.sub)

\* C28: a token that verifies but lacks the subject claim makes the request
\* fail with TenantClaimsMissingError (TENANT_CLAIMS_MISSING, 401) in every
\* trust mode and whatever headers are present, and the request is never
\* given a tenant from the headers instead.
C28_MissingSubjectIsTypedError ==
    (Handled /\ TokenLacksSubject) =>
        /\ response = Response(401, "TENANT_CLAIMS_MISSING")
        /\ resolution.error = TenantClaimsMissingError
        /\ reqTenant = None
        /\ nextCalls = 0

\* C28 holds of every middleware that was given the jwt option.
C28_TypedErrorWithJwtOption ==
    options.jwt # None => C28_MissingSubjectIsTypedError

\* The limit the tenant's plan (or the default limits) sets for a kind.
PlanLimitOf(tenant, resource) ==
    LET limits == IF tenant.plan = None THEN DEFAULT_LIMITS
                  ELSE tenant.plan[1].limits
        field == [products |-> "maxProducts", orders |-> "maxOrders",
                  users |-> "maxUsers", apiCalls |-> "maxApiCallsPerDay",
                  storage |-> "maxStorageMb"]
    IN  limits[field[resource]]

\* C29: checkQuota never fails; for a recognised resource kind the result is
\* for the tenant's limit of that kind, allowed exactly when currentCount +
\* incrementBy <= limit (incrementBy 1 when left out), with remaining =
\* max(0, limit - currentCount); an unrecognised kind is allowed, with an
\* unbounded limit and remaining.
C29_QuotaCheck ==
    guardCall.op = "checkQuota" =>
        LET in == guardCall.input
            out == guardResult.value[1]
            by == IF in.incrementBy = None THEN 1 ELSE in.incrementBy[1]
        IN  /\ guardResult.ok
            /\ out.current = in.currentCount
            /\ IF in.resource \in {"products", "orders", "users", "apiCalls",
                                   "storage"}
               THEN LET limit == PlanLimitOf(guardCall.tenant[1], in.resource)
                    IN  /\ out.limit = limit
                        /\ out.allowed <=> in.currentCount + by <= limit
                        /\ out.remaining = IF limit > in.currentCount
                                           THEN limit - in.currentCount ELSE 0
               ELSE /\ out.allowed
                    /\ out.limit = Infinity
                    /\ out.remaining = Infinity

\* A denied operation on a resource that still has room, and none left.
C29_Witness ==
    /\ guardCall.op = "checkQuota"
    /\ guardCall.input.resource = "orders"
    /\ guardCall.input.incrementBy = Some(2)
    /\ ~guardResult.value[1].allowed
    /\ guardResult.value[1].remaining = 1

\* The host of a call of extractSubdomain is text followed by a port of
\* the model, or by none.
HostIs(text) == \E port \in PortSet : guardCall.input.hostname = text \o port

\* The platform domains in force in a call of extractSubdomain.
DomainsInForce ==
    LET list == IF guardCall.input.platformDomains = None THEN PLATFORM_DOMAINS
                ELSE guardCall.input.platformDomains[1]
    IN  { list[i] : i \in 1..Len(list) }

\* The number of labels of a dot-separated name.
RECURSIVE Labels(_)
Labels(name) ==
    IF name = "" THEN 1
    ELSE (IF SubSeq(name, 1, 1) = "." THEN 1 ELSE 0)
         + Labels(SubSeq(name, 2, Len(name)))

\* What parseSubdomain makes of the answer of extractSubdomain.
Routed ==
    IF guardResult.value = None THEN None
    ELSE parseSubdomain(guardResult.value[1])

\* The statement of C30 about the call the state holds.
HostnameRouting ==
    /\ guardCall.op = "extractSubdomain" =>
          /\ \A d \in DomainsInForce, s \in HostSlugSet :
                /\ HostIs(s \o "." \o d) =>
                       Routed = Some(Parsed("storefront", s))
                /\ HostIs("admin." \o s \o "." \o d) =>
                       Routed = Some(Parsed("admin", s))
                /\ HostIs("api." \o s \o "." \o d) =>
                       Routed = Some(Parsed("api", s))
          /\ (\E d \in DomainsInForce : HostIs(d)) => guardResult.value = None
          /\ (\A d \in DomainsInForce, port \in PortSet :
                  /\ ~HostIs(d)
                  /\ ~EndsWith(guardCall.input.hostname, "." \o d \o port)) =>
                 guardResult.value = None
    /\ guardCall.op = "parseSubdomain" =>
          LET subdomain == guardCall.input
          IN  /\ subdomain = "" => guardResult.value = None
              /\ Labels(subdomain) > 2 => guardResult.value = None
              /\ (/\ Labels(subdomain) = 2
                  /\ ~StartsWith(subdomain, "admin.")
                  /\ ~StartsWith(subdomain, "api.")) =>
                     guardResult.value = None

\* C30: hostname routing round trip.  For every platform domain d in force,
\* with or without a port, and every one-label slug s, the hosts s.d,
\* admin.s.d and api.s.d are routed to (storefront, s), (admin, s) and
\* (api, s); extractSubdomain answers null for a platform domain itself and
\* for a host that is neither a platform domain nor a subdomain of one;
\* parseSubdomain answers null for the empty string, for two labels with
\* another prefix and for more than two labels.
C30_HostnameRoundTrip == HostnameRouting

\* No platform domain in force lies under another.
FlatDomains ==
    \A d, e \in DomainsInForce : ~EndsWith(d, "." \o e)

\* C30 as far as the code keeps it: whenever the platform domains are
\* unrelated names, as the default ones are.
C30_RoundTripOnFlatDomains ==
    (guardCall.op = "extractSubdomain" => FlatDomains) => HostnameRouting

\* The windows the clock of the rate limiter's model passes through.
RlWindows ==
    getCurrentWindow(RlEpoch)..getCurrentWindow(RlEpoch + MaxRlTicks * RlTickMs)

\* C31: under any interleaving of concurrent checkRateLimit calls for one
\* key inside one window whose previous window is empty, the number of
\* admitted requests, count(W), never exceeds limitPerMinute +
\* burstAllowance.
C31_ConcurrentAdmissionBounded ==
    \A key \in RlKeySet, w \in RlWindows :
        CountOf(rlStore, key, w - 1) = 0 =>
            CountOf(rlStore, key, w) <= Ceiling

\* Call i starts in this step and returns from the cache at once.
ServedFromCache(i) ==
    /\ rsCalls[i].pc = "idle"
    /\ rsCalls'[i].pc = "returned"
    /\ rsCalls'[i].fromCache

\* C32: after an invalidation of a tenant's cache key has returned, no
\* lookup that starts afterwards is served, from the cache, what the
\* repository answered before the invalidation: not even when the lookup
\* that read it was in flight while the invalidation ran.
C32_InvalidationOvertakesLookups ==
    [][\A i \in RsSlots :
         ServedFromCache(i) =>
             ~rsOutdated.entries[CacheKey(rsCalls'[i].fn, rsCalls'[i].arg)]]_vars

\* C33: invalidating a tenant removes every cached projection of it: once
\* invalidateTenantCache(slug, ..) has returned, the cache holds no entry of
\* the tenant with that slug, neither under its slug nor under its custom
\* domain, so that the next lookup by either reloads from the repository.
C33_InvalidationRemovesEveryProjection ==
    [][\A slug \in InvalidateSlugSet, customDomain \in InvalidateDomainSet :
         RsInvalidate(slug, customDomain) =>
             \A k \in RsCacheKeys :
                 rsCache'[k] # None => rsCache'[k][1].tenant.slug # slug]_vars

\* The part of C33 that holds: the call that names the custom domain too.
C33_RemovesNamedProjections ==
    [][\A slug \in InvalidateSlugSet :
         RsInvalidate(slug, Some(RsDomain)) =>
             \A k \in RsCacheKeys :
                 rsCache'[k] # None => rsCache'[k][1].tenant.slug # slug]_vars

\* The factory's middleware is through with request i and gave it no
\* tenant: it resolved none (optional mode) or answered with an error.
MwEndedWithoutTenant(i) ==
    /\ inflight[i].pc = "done"
    /\ inflight[i].tenantInfo = None

\* C34: a tenant context is never retained past its request: when
\* createTenantMiddleware has handled a request that resolves no tenant or
\* that it rejects, TenantContext.get() is null, whatever requests were
\* handled before it.
C34_ContextNotRetained ==
    \A i \in RequestIds : MwEndedWithoutTenant(i) => currentTenant = None

-----------------------------------------------------------------------------
(* getRateLimitStatus: src/src/express/rate-limit.ts *)

\* getRateLimitStatus(tenant) up to the first await of the checkRateLimit it
\* calls with the key `tenant:${tenant.id}`; guardCall holds the tenant.
getRateLimitStatus(i) ==
    LET tenant == guardCall.tenant[1]
    IN  RlStart(i, "tenant:" \o tenant.id)

\* The rest of getRateLimitStatus: checkRateLimit decides and returns, and
\* its info is handed back (rlLast).
getRateLimitStatusReturn(i) ==
    RlFinish(i)

\* The tenants asked about: one without a plan, one whose plan allows 72000
\* API calls a day (100 a minute).
StatusTenantSet ==
    {PlannedTenant("a", None),
     PlannedTenant("a", Some(Plan("custom", <<>>, TenantLimits(50, 100, 2, 72000, 256))))}

\* Every call is a getRateLimitStatus for one tenant, whose limits are those
\* of getRateLimitConfig; no request of the tenant was counted yet.
StatusInit ==
    /\ options = Options(None, None, None, None, None, None)
    /\ ExprInit
    /\ MwIdle
    /\ \E t \in StatusTenantSet :
         /\ guardCall = [op |-> "getRateLimitStatus", tenant |-> Some(t),
                         input |-> NoCall.input]
         /\ rlConfig = getRateLimitConfig(t)
    /\ guardResult = Returned(None)
    /\ rlStore = OtherClientStore
    /\ rlNow = RlEpoch
    /\ rlCalls = [i \in RlSlots |-> IdleCall]
    /\ rlRun = [k \in RlKeySet |-> NoRun]
    /\ rlLast = None
    /\ RsIdle

StatusNext ==
    \/ \E i \in RlSlots : getRateLimitStatus(i)
    \/ \E i \in RlSlots : getRateLimitStatusReturn(i)
    \/ RlTick

SpecRateStatus == StatusInit /\ [][StatusNext]_vars

\* C35: getRateLimitStatus is a pure read: a call of it changes no counter
\* and no expiry in the counter store, so that it takes nothing from the
\* requests the tenant is allowed afterwards.
C35_StatusIsPureRead ==
    [][\A i \in RlSlots :
         getRateLimitStatus(i) \/ getRateLimitStatusReturn(i) =>
             rlStore' = rlStore]_vars

\* C36: checkRateLimit uses one consistent instant: the window of the
\* counter keys and of resetAt is the window of the instant the decision is
\* made at, even when the clock crosses a window boundary while the counters
\* are read; so resetAt is later than the decision and retryAfterSeconds is
\* between 1 and 60.
C36_OneConsistentInstant ==
    rlLast # None =>
        LET last == rlLast[1]
        IN  /\ last.currentWindow = getCurrentWindow(last.decidedAt)
            /\ last.info.resetAt > last.decidedAt
            /\ last.info.retryAfterSeconds >= 1
            /\ last.info.retryAfterSeconds <= WINDOW_SIZE_MS \div 1000

\* C37: under 'signed' a signature is accepted only for a timestamp inside
\* the freshness window that ends now: a tenant is resolved from headers
\* only if 0 <= now - timestamp <= 300000 ms, so that a signed request with a
\* timestamp in the future is rejected.
C37_FreshnessWindowEndsNow ==
    LET ts == ParseInt(req.headers["x-tenant-signature-ts"][1])
    IN  (Handled /\ TrustMode = "signed" /\ ResolvedFromHeaders) =>
            /\ ts # None
            /\ req.now - ts[1] >= 0
            /\ req.now - ts[1] <= 300000

\* What resolveTenant returns, under the options in force, for the request
\* that differs from req in its x-tenant-status and x-tenant-host headers only.
ResolutionWith(status, host) ==
    LET other == [req EXCEPT !.headers["x-tenant-status"] = status,
                             !.headers["x-tenant-host"] = host]
        opts == [options EXCEPT !.headerTrustMode = Default(@, "jwt-only")]
    IN  resolveTenant(other, opts, TrustedNetworks)

\* C38: under 'signed' every field of the tenant built from headers is
\* determined by signed data: a request with the same signature, x-tenant-id,
\* x-tenant-slug and timestamp and another x-tenant-status or x-tenant-host
\* resolves to the same tenant status, so that an unsigned header cannot turn
\* an ARCHIVED or SUSPENDED tenant into an accepted one.
C38_SignedDataDeterminesStatus ==
    (Handled /\ TrustMode = "signed" /\ ResolvedFromHeaders) =>
        \A status \in {None} \cup {Some(st) : st \in Statuses},
           host \in {None, Some("bee.shop.example")} :
            LET other == ResolutionWith(status, host)
            IN  /\ other.kind = "tenant"
                /\ other.tenant[1].status = resolution.tenant[1].status

C40_NoPlanGetsDefaultRateLimits ==
    (guardCall.op = "getRateLimitConfig" /\ guardCall.tenant[1].plan = None) =>
        /\ guardResult.value[1] = DEFAULT_RATE_LIMITS
        /\ guardResult.value[1].requestsPerMinute = 60
        /\ guardResult.value[1].burstAllowance = 10

====
